---- MODULE Spec2Model ----
(***************************************************************************)
(* GoREAL: the validation-and-persistence core.                            *)
(*   goreal/core/validators.py     input validators and sanitizer          *)
(*   goreal/core/sheets_client.py  GoogleSheetsClient over the PlayerLog   *)
(*                                 worksheet                               *)
(*   goreal/api/routes.py          the HTTP handlers                       *)
(*                                                                         *)
(* A Python str is a sequence of one-character strings, so that regular    *)
(* expressions, html.escape and strip are computed character by character. *)
(* A worksheet is the sequence of its rows, row 1 first; a row is a        *)
(* sequence of cells; a cell holds a str.  Cells are read back as the str  *)
(* that was written (gspread's numeric conversion of cells is not          *)
(* modelled: no identifier of the model is numeric).                       *)
(***************************************************************************)
EXTENDS Integers, Sequences, FiniteSets, TLC

VARIABLES
    playerlog,   \* the PlayerLog worksheet of the spreadsheet
    sheet,       \* GoogleSheetsClient._sheet is set (TRUE) or None (FALSE)
    last,        \* the last call: operation, arguments, result, store calls made
    payload,     \* validators: the request data handed to a validator
    verdict,     \* validators: what the validator returned, payload as it left it
    challenges,  \* the Challenges worksheet of the spreadsheet
    snapshot,    \* dashboard: the PlayerLog frame held by the cache of fetch_playerlog_data
    inflight,    \* the calls that have started and not returned, with their locals
    db           \* the relational database: the rows of its tables

vars == <<playerlog, sheet, last, payload, verdict, challenges, snapshot,
          inflight, db>>

(***************************************************************************)
(* Bounds of the model.                                                    *)
(***************************************************************************)
MaxRows == 2     \* data rows of PlayerLog (the header row not counted)

(***************************************************************************)
(* str values used by the model.                                           *)
(***************************************************************************)
EmptyStr == << >>
None == <<"<None>">>    \* Python None: a token that is no character
P1 == <<"P", "1">>
P2 == <<"P", "2">>
C01 == <<"C", "0", "1">>
C02 == <<"C", "0", "2">>
Alice == <<"A", "l", "i", "c", "e">>
Received == <<"R", "e", "c", "e", "i", "v", "e", "d">>
Submitted == <<"S", "u", "b", "m", "i", "t", "t", "e", "d">>
Completed == <<"C", "o", "m", "p", "l", "e", "t", "e", "d">>
Unknown == <<"U", "n", "k", "n", "o", "w", "n">>
done == <<"d", "o", "n", "e">>
redo == <<"r", "e", "d", "o">>
T1 == <<"2", "0", "2", "4", "-", "0", "5", "-", "0", "1", " ", "1", "0", ":", "0", "0", ":", "0", "0">>
T2 == <<"2", "0", "2", "4", "-", "0", "5", "-", "0", "1", " ", "0", "9", ":", "5", "9", ":", "5", "9">>
KTimestamp == <<"T", "i", "m", "e", "s", "t", "a", "m", "p">>
KPlayerID == <<"P", "l", "a", "y", "e", "r", "I", "D">>
KPlayerName == <<"P", "l", "a", "y", "e", "r", "N", "a", "m", "e">>
KChallengeID == <<"C", "h", "a", "l", "l", "e", "n", "g", "e", "I", "D">>
KStatus == <<"S", "t", "a", "t", "u", "s">>
KTitle == <<"T", "i", "t", "l", "e">>
KDescription == <<"D", "e", "s", "c", "r", "i", "p", "t", "i", "o", "n">>
KRewardPoints == <<"R", "e", "w", "a", "r", "d", "P", "o", "i", "n", "t", "s">>
KSubmissionText == <<"S", "u", "b", "m", "i", "s", "s", "i", "o", "n", "T", "e", "x", "t">>

\* str(x): a str is itself, None becomes "None"
str(x) == IF x = None THEN <<"N", "o", "n", "e">> ELSE x

\* not x, for x a str or None
Falsy(x) == x = None \/ x = EmptyStr

\* no call is under way
NoCalls == << >>

\* the tables of the database right after Base.metadata.create_all(engine)
EmptyDb == [players |-> << >>, challenges |-> << >>, player_challenges |-> << >>]

\* no call has been made yet, or its result has been handed over
NoCall == [op |-> "none", args |-> << >>, ret |-> FALSE, calls |-> << >>]

MaxOf(S) == CHOOSE m \in S : \A n \in S : n <= m

(***************************************************************************)
(* The worksheet, as gspread presents it.                                  *)
(***************************************************************************)
\* Row 1 of PlayerLog: Timestamp, PlayerID, PlayerName, ChallengeID, Status,
\* SubmissionText
PlayerLogHeader ==
    <<KTimestamp, KPlayerID, KPlayerName, KChallengeID, KStatus, KSubmissionText>>

NCols == Len(PlayerLogHeader)

\* Row 1 of Challenges: ChallengeID, Title, Description, RewardPoints
ChallengesHeader == <<KChallengeID, KTitle, KDescription, KRewardPoints>>

\* a pandas DataFrame is its column labels and its rows of values; NoneDf
\* stands for the None that the fetch functions return on failure
NoneDf == [none |-> TRUE, columns |-> << >>, rows |-> << >>]

\* fetch_playerlog_data() has not run or its cache entry has expired
NoFrame == [cached |-> FALSE, df |-> NoneDf]

\* datetime.now().strftime("%Y-%m-%d %H:%M:%S"): the local clock, which may
\* also step backwards between two calls
Clock == {T1, T2}

\* Worksheet.get_all_records(): row 1 gives the keys, every later row is one
\* record; a sheet of fewer than two rows has no records
get_all_records(ws) ==
    IF Len(ws) < 2 THEN << >>
    ELSE [i \in 1..(Len(ws) - 1) |-> [keys |-> ws[1], vals |-> ws[i + 1]]]

\* record.get(key, default) of a record built as dict(zip(keys, vals))
RecordGet(record, key, default) ==
    LET cols == {j \in 1..Len(record.keys) :
                    j <= Len(record.vals) /\ record.keys[j] = key}
    IN  IF cols = {} THEN default ELSE record.vals[MaxOf(cols)]

\* a variant of append_row: the row is inserted right below the header, as
\* insert_row(row, 2) would
append_row_at_top(ws, row) ==
    IF Len(ws) = 0 THEN <<row>> ELSE <<ws[1], row>> \o SubSeq(ws, 2, Len(ws))

\* Worksheet.append_row(row): the row goes below the last row of the table
append_row(ws, row) == Append(ws, row)

\* Worksheet.update_cell(r, c, value), rows and columns counted from 1; a cell
\* below the table or right of a row makes the grid grow with empty cells
PadRow(row, c) ==
    [j \in 1..(IF c > Len(row) THEN c ELSE Len(row)) |->
        IF j <= Len(row) THEN row[j] ELSE EmptyStr]

update_cell(ws, r, c, value) ==
    LET n == IF r > Len(ws) THEN r ELSE Len(ws)
        grown == [i \in 1..n |-> IF i <= Len(ws) THEN ws[i] ELSE << >>]
    IN  [grown EXCEPT ![r] = [PadRow(@, c) EXCEPT ![c] = value]]

(***************************************************************************)
(* GoogleSheetsClient.  A call is given its environment f: f.up says       *)
(* whether the credentials are there and the store can be reached, and     *)
(* f.failAt numbers the worksheet request of the call that raises          *)
(* (0: none, 1: opening the worksheet, 2: the read or the append,          *)
(* 3 and 4: the first and the second cell update); f.mockRaises says that  *)
(* the handler's client method is patched with a mock that raises, as the  *)
(* endpoint tests do.  Each operator yields the worksheet and the cached   *)
(* handle after the call, the value returned, whether an exception left    *)
(* the call, and the store calls made.                                     *)
(***************************************************************************)
NoFault == [up |-> TRUE, failAt |-> 0, mockRaises |-> FALSE]

\* a variant of Caught: no except clause, the exception leaves the call
Uncaught(r, failure) == r

\* try: <body> except Exception: return <failure> -- r is the outcome of the
\* body
Caught(r, failure) ==
    IF r.raised THEN [r EXCEPT !.ret = failure, !.raised = FALSE] ELSE r

\* connect(): (sheet, client), or (None, None) when the credentials file is
\* missing or authorize/open raises
connect(f) == Caught([ret |-> f.up, raised |-> ~f.up], FALSE)

\* a variant of get_worksheet that makes no connect attempt of its own: it
\* uses the handle when there is one and gives None otherwise
get_worksheet_no_connect(sh, f) ==
    LET w == Caught([ret |-> f.up /\ f.failAt # 1,
                     raised |-> ~(f.up /\ f.failAt # 1)], FALSE)
    IN  IF ~sh
        THEN [ok |-> FALSE, sheet |-> FALSE, raised |-> FALSE, calls |-> << >>]
        ELSE [ok |-> w.ret, sheet |-> TRUE, raised |-> w.raised,
              calls |-> <<"worksheet">>]

\* get_worksheet(name): connects when no handle is cached; None when there is
\* no handle or when opening the worksheet raises
get_worksheet(sh, f) ==
    LET c == IF ~sh THEN connect(f) ELSE [ret |-> sh, raised |-> FALSE]
        c1 == IF ~sh THEN <<"connect">> ELSE << >>
        w == Caught([ret |-> f.up /\ f.failAt # 1,
                     raised |-> ~(f.up /\ f.failAt # 1)], FALSE)
    IN  IF c.raised
        THEN [ok |-> FALSE, sheet |-> FALSE, raised |-> TRUE, calls |-> c1]
        ELSE IF ~c.ret
        THEN [ok |-> FALSE, sheet |-> FALSE, raised |-> FALSE, calls |-> c1]
        ELSE [ok |-> w.ret, sheet |-> TRUE, raised |-> w.raised,
              calls |-> c1 \o <<"worksheet">>]

\* log_challenge(player_id, player_name, challenge_id, status, submission_text)
log_challenge(ws, sh, f, now, player_id, player_name, challenge_id, status, submission_text) ==
    LET w == get_worksheet(sh, f)
        row_data == <<now, str(player_id), str(player_name), str(challenge_id),
                      status, submission_text>>
    IN  Caught(
          IF w.raised \/ ~w.ok
          THEN [ws |-> ws, sheet |-> w.sheet, ret |-> FALSE, raised |-> w.raised,
                calls |-> w.calls]
          ELSE IF f.failAt = 2
          THEN [ws |-> ws, sheet |-> w.sheet, ret |-> FALSE, raised |-> TRUE,
                calls |-> w.calls \o <<"append_row">>]
          ELSE [ws |-> append_row(ws, row_data), sheet |-> w.sheet, ret |-> TRUE,
                raised |-> FALSE, calls |-> w.calls \o <<"append_row">>],
          FALSE)

\* a variant of Matching: the ChallengeID is not compared
MatchingPlayerOnly(records, player_id, challenge_id) ==
    {idx \in 0..(Len(records) - 1) :
        str(RecordGet(records[idx + 1], KPlayerID, EmptyStr)) = str(player_id)}

\* The loops of update_submission and get_player_status: the 0-based indexes
\* of the records whose PlayerID and ChallengeID equal the arguments as str
Matching(records, player_id, challenge_id) ==
    {idx \in 0..(Len(records) - 1) :
        /\ str(RecordGet(records[idx + 1], KPlayerID, EmptyStr)) = str(player_id)
        /\ str(RecordGet(records[idx + 1], KChallengeID, EmptyStr)) = str(challenge_id)}

\* a variant of ScanFromBottom: the scan runs from the top, so the earliest
\* matching record is the hit
ScanFromTop(S) == CHOOSE m \in S : \A n \in S : m <= n

\* for idx in range(len(records) - 1, -1, -1): ... break  -- the first hit of
\* the scan from the bottom
ScanFromBottom(S) == MaxOf(S)

\* a variant of matching_row_index: the header row is not counted
matching_row_index_no_header(idx) == idx + 1

\* matching_row_index = idx + 2  (+2 for 1-indexed rows and headers)
matching_row_index(idx) == idx + 2

\* a variant of update_submission that keeps the matching row as it is and
\* records the submission in a copy of it appended below the table
update_submission_appending(ws, sh, f, player_id, challenge_id, submission_text, status) ==
    LET w == get_worksheet(sh, f)
        records == get_all_records(ws)
        hits == Matching(records, player_id, challenge_id)
        r == matching_row_index(ScanFromBottom(hits))
        c2 == w.calls \o <<"get_all_records">>
        row == [PadRow(ws[r], 6) EXCEPT ![5] = status, ![6] = submission_text]
    IN  IF w.raised \/ ~w.ok \/ f.failAt \in 2..4
        THEN [ws |-> ws, sheet |-> w.sheet, ret |-> FALSE, raised |-> FALSE,
              calls |-> w.calls]
        ELSE IF records = << >> \/ hits = {}
        THEN [ws |-> ws, sheet |-> w.sheet, ret |-> FALSE, raised |-> FALSE,
              calls |-> c2]
        ELSE [ws |-> append_row(ws, row), sheet |-> w.sheet, ret |-> TRUE,
              raised |-> FALSE, calls |-> c2 \o <<"append_row">>]

\* update_submission(player_id, challenge_id, submission_text, status)
update_submission(ws, sh, f, player_id, challenge_id, submission_text, status) ==
    LET w == get_worksheet(sh, f)
        records == get_all_records(ws)
        hits == Matching(records, player_id, challenge_id)
        r == matching_row_index(ScanFromBottom(hits))
        c2 == w.calls \o <<"get_all_records">>
        ws1 == update_cell(ws, r, 5, status)
        ws2 == update_cell(ws1, r, 6, submission_text)
    IN  Caught(
          IF w.raised \/ ~w.ok
          THEN [ws |-> ws, sheet |-> w.sheet, ret |-> FALSE, raised |-> w.raised,
                calls |-> w.calls]
          ELSE IF f.failAt = 2
          THEN [ws |-> ws, sheet |-> w.sheet, ret |-> FALSE, raised |-> TRUE,
                calls |-> c2]
          ELSE IF records = << >> \/ hits = {}
          THEN [ws |-> ws, sheet |-> w.sheet, ret |-> FALSE, raised |-> FALSE,
                calls |-> c2]
          ELSE IF f.failAt = 3
          THEN [ws |-> ws, sheet |-> w.sheet, ret |-> FALSE, raised |-> TRUE,
                calls |-> c2 \o <<"update_cell">>]
          ELSE IF f.failAt = 4
          THEN [ws |-> ws1, sheet |-> w.sheet, ret |-> FALSE, raised |-> TRUE,
                calls |-> c2 \o <<"update_cell", "update_cell">>]
          ELSE [ws |-> ws2, sheet |-> w.sheet, ret |-> TRUE, raised |-> FALSE,
                calls |-> c2 \o <<"update_cell", "update_cell">>],
          FALSE)

\* get_player_status(player_id, challenge_id): Optional[Dict]; the result is
\* the empty tuple for None and a one-element tuple holding the dict otherwise
NoDict == << >>

get_player_status(ws, sh, f, player_id, challenge_id) ==
    LET w == get_worksheet(sh, f)
        records == get_all_records(ws)
        hits == Matching(records, player_id, challenge_id)
        record == records[ScanFromBottom(hits) + 1]
        c2 == w.calls \o <<"get_all_records">>
    IN  Caught(
          IF w.raised \/ ~w.ok
          THEN [ws |-> ws, sheet |-> w.sheet, ret |-> NoDict, raised |-> w.raised,
                calls |-> w.calls]
          ELSE IF f.failAt = 2
          THEN [ws |-> ws, sheet |-> w.sheet, ret |-> NoDict, raised |-> TRUE,
                calls |-> c2]
          ELSE IF records = << >> \/ hits = {}
          THEN [ws |-> ws, sheet |-> w.sheet, ret |-> NoDict, raised |-> FALSE,
                calls |-> c2]
          ELSE [ws |-> ws, sheet |-> w.sheet, calls |-> c2, raised |-> FALSE,
                ret |-> <<[status |-> RecordGet(record, KStatus, Unknown),
                           timestamp |-> RecordGet(record, KTimestamp, EmptyStr),
                           playerName |-> RecordGet(record, KPlayerName, EmptyStr),
                           submissionText |-> RecordGet(record, KSubmissionText, EmptyStr)]>>],
          NoDict)

\* a variant of get_challenges: a failing read is not caught
get_challenges_uncaught(chs, sh, f) ==
    LET w == get_worksheet(sh, f)
    IN  IF w.raised \/ ~w.ok
        THEN [sheet |-> w.sheet, ret |-> << >>, raised |-> w.raised, calls |-> w.calls]
        ELSE [sheet |-> w.sheet, ret |-> get_all_records(chs), raised |-> f.failAt = 2,
              calls |-> w.calls \o <<"get_all_records">>]

\* get_challenges(): the records of the Challenges worksheet, or [] when it
\* cannot be opened or read
get_challenges(chs, sh, f) ==
    LET w == get_worksheet(sh, f)
        records == get_all_records(chs)
    IN  Caught(
          IF w.raised \/ ~w.ok
          THEN [sheet |-> w.sheet, ret |-> << >>, raised |-> w.raised,
                calls |-> w.calls]
          ELSE IF f.failAt = 2
          THEN [sheet |-> w.sheet, ret |-> << >>, raised |-> TRUE,
                calls |-> w.calls \o <<"get_all_records">>]
          ELSE [sheet |-> w.sheet, ret |-> records, raised |-> FALSE,
                calls |-> w.calls \o <<"get_all_records">>],
          << >>)

(***************************************************************************)
(* Spec: the operations of one GoogleSheetsClient called one after the     *)
(* other (a single thread) against a store that answers every request.     *)
(***************************************************************************)
\* the identity pairs (player_id, challenge_id) the calls are made with: two
\* challenges of one player, and one challenge shared by two players
Pairs == {<<P1, C01>>, <<P1, C02>>, <<P2, C01>>}
PlayerNames == {Alice}
\* (submission_text, status) pairs passed to update_submission; the first is
\* the default status
Submissions == {<<done, Submitted>>, <<redo, Completed>>}

NoPayload == << >>
NoVerdict == [fn |-> "none", ok |-> FALSE, msg |-> << >>, data |-> << >>]

Init ==
    /\ playerlog = <<PlayerLogHeader>>
    /\ challenges = <<ChallengesHeader>>
    /\ snapshot = NoFrame
    /\ inflight = NoCalls
    /\ db = EmptyDb
    /\ sheet = FALSE
    /\ last = NoCall
    /\ payload = NoPayload
    /\ verdict = NoVerdict

\* sheets_client.log_challenge(player_id, player_name, challenge_id)
ClientLogChallenge ==
    \E pair \in Pairs, player_name \in PlayerNames, now \in Clock :
        LET player_id == pair[1]
            challenge_id == pair[2]
            res == log_challenge(playerlog, sheet, NoFault, now, player_id,
                                 player_name, challenge_id, Received, EmptyStr)
        IN  /\ Len(playerlog) - 1 < MaxRows
            /\ playerlog' = res.ws
            /\ sheet' = res.sheet
            /\ last' = [op |-> "log_challenge",
                        args |-> <<player_id, player_name, challenge_id>>,
                        ret |-> res.ret, calls |-> res.calls]
            /\ UNCHANGED <<inflight, db, payload, verdict, challenges, snapshot>>

\* sheets_client.update_submission(player_id, challenge_id, submission_text, status)
ClientUpdateSubmission ==
    \E pair \in Pairs, s \in Submissions :
        LET player_id == pair[1]
            challenge_id == pair[2]
            res == update_submission(playerlog, sheet, NoFault, player_id,
                                     challenge_id, s[1], s[2])
        IN  /\ playerlog' = res.ws
            /\ sheet' = res.sheet
            /\ last' = [op |-> "update_submission",
                        args |-> <<player_id, challenge_id, s[1], s[2]>>,
                        ret |-> res.ret, calls |-> res.calls]
            /\ UNCHANGED <<inflight, db, payload, verdict, challenges, snapshot>>

\* sheets_client.get_player_status(player_id, challenge_id)
ClientGetPlayerStatus ==
    \E pair \in Pairs :
        LET player_id == pair[1]
            challenge_id == pair[2]
            res == get_player_status(playerlog, sheet, NoFault, player_id, challenge_id)
        IN  /\ playerlog' = res.ws
            /\ sheet' = res.sheet
            /\ last' = [op |-> "get_player_status",
                        args |-> <<player_id, challenge_id>>,
                        ret |-> res.ret, calls |-> res.calls]
            /\ UNCHANGED <<inflight, db, payload, verdict, challenges, snapshot>>

Next ==
    \/ ClientLogChallenge
    \/ ClientUpdateSubmission
    \/ ClientGetPlayerStatus

Spec == Init /\ [][Next]_vars

(***************************************************************************)
(* goreal/core/validators.py.  Characters are ASCII: \w and the ignore-case *)
(* flag are modelled on the ASCII letters, digits and underscore.          *)
(***************************************************************************)
MAX_ID_LENGTH == 100

LowerLetters ==
    <<"a", "b", "c", "d", "e", "f", "g", "h", "i", "j", "k", "l", "m",
      "n", "o", "p", "q", "r", "s", "t", "u", "v", "w", "x", "y", "z">>
UpperLetters ==
    <<"A", "B", "C", "D", "E", "F", "G", "H", "I", "J", "K", "L", "M",
      "N", "O", "P", "Q", "R", "S", "T", "U", "V", "W", "X", "Y", "Z">>
LetterChars ==
    {LowerLetters[i] : i \in 1..26} \cup {UpperLetters[i] : i \in 1..26}
DigitChars == {"0", "1", "2", "3", "4", "5", "6", "7", "8", "9"}

\* re.IGNORECASE: characters are compared in lower case
Lower(c) ==
    IF \E i \in 1..26 : UpperLetters[i] = c
    THEN LowerLetters[CHOOSE i \in 1..26 : UpperLetters[i] = c]
    ELSE c

\* the class [a-zA-Z0-9_-] of ALLOWED_ID_PATTERN
AllowedIdChars == LetterChars \cup DigitChars \cup {"_", "-"}

\* the class \w
WordChars == LetterChars \cup DigitChars \cup {"_"}

MinOf(S) == CHOOSE m \in S : \A n \in S : m <= n

\* ALLOWED_ID_PATTERN.match(s) for ^[a-zA-Z0-9_-]+$ : one or more allowed
\* characters from the start, and $ matches at the end of the string and also
\* just before a newline that ends the string
IdPatternMatch(s) ==
    LET n == IF Len(s) >= 1 /\ s[Len(s)] = "\n" THEN Len(s) - 1 ELSE Len(s)
        AllAllowed(m) == m >= 1 /\ \A i \in 1..m : s[i] \in AllowedIdChars
    IN  AllAllowed(Len(s)) \/ AllAllowed(n)

\* the literal lit (given in lower case) stands in s at position i
LitAt(s, i, lit) ==
    /\ i >= 1
    /\ i + Len(lit) - 1 <= Len(s)
    /\ \A k \in 1..Len(lit) : Lower(s[i + k - 1]) = lit[k]

\* A match of a pattern of MALICIOUS_PATTERNS that starts at position i of s:
\* the position of its last character, or 0 when there is none.
\* r'<script[^>]*>.*?</script>': "<script", then up to the first ">", then
\* as few characters as possible, none of them a newline, up to "</script>"
ScriptMatchEnd(s, i) ==
    LET gts == {j \in (i + 7)..Len(s) : s[j] = ">"}
        j == MinOf(gts)
        ks == {k \in (j + 1)..Len(s) :
                 /\ LitAt(s, k, <<"<", "/", "s", "c", "r", "i", "p", "t", ">">>)
                 /\ \A m \in (j + 1)..(k - 1) : s[m] # "\n"}
    IN  IF ~LitAt(s, i, <<"<", "s", "c", "r", "i", "p", "t">>) \/ gts = {} THEN 0
        ELSE IF ks = {} THEN 0
        ELSE MinOf(ks) + 8

\* r'on\w+=': "on", the longest run of word characters (at least one), "="
EventMatchEnd(s, i) ==
    LET stops == {e \in (i + 2)..Len(s) : s[e] \notin WordChars}
        e == MinOf(stops)
    IN  IF ~LitAt(s, i, <<"o", "n">>) \/ stops = {} THEN 0
        ELSE IF e > i + 2 /\ s[e] = "=" THEN e
        ELSE 0

\* r'javascript:', r'expression\(', r'eval\(': literals
LiteralMatchEnd(s, i, lit) == IF LitAt(s, i, lit) THEN i + Len(lit) - 1 ELSE 0

\* MALICIOUS_PATTERNS, in the order of the list
NPatterns == 5
MatchEnd(p, s, i) ==
    CASE p = 1 -> ScriptMatchEnd(s, i)
      [] p = 2 -> LiteralMatchEnd(s, i, <<"j", "a", "v", "a", "s", "c", "r", "i", "p", "t", ":">>)
      [] p = 3 -> EventMatchEnd(s, i)
      [] p = 4 -> LiteralMatchEnd(s, i, <<"e", "x", "p", "r", "e", "s", "s", "i", "o", "n", "(">>)
      [] p = 5 -> LiteralMatchEnd(s, i, <<"e", "v", "a", "l", "(">>)

\* re.search(pattern, text, re.IGNORECASE)
re_search(p, s) == \E i \in 1..Len(s) : MatchEnd(p, s, i) # 0

\* re.sub(pattern, '', text, flags=re.IGNORECASE): the matches are removed
\* from left to right, none overlapping another.  SubFrom is the result for
\* the text from position i on: what stands before the next match is kept,
\* the match is dropped, and the scan goes on behind it
RECURSIVE SubFrom(_, _, _)
SubFrom(p, s, i) ==
    LET starts == {k \in i..Len(s) : MatchEnd(p, s, k) # 0}
        k == MinOf(starts)
    IN  IF starts = {} THEN SubSeq(s, i, Len(s))
        ELSE SubSeq(s, i, k - 1) \o SubFrom(p, s, MatchEnd(p, s, k) + 1)

re_sub(p, s) == SubFrom(p, s, 1)

\* html.escape(text): & < > " ' become entities
EscapeChar(c) ==
    CASE c = "&" -> <<"&", "a", "m", "p", ";">>
      [] c = "<" -> <<"&", "l", "t", ";">>
      [] c = ">" -> <<"&", "g", "t", ";">>
      [] c = "\"" -> <<"&", "q", "u", "o", "t", ";">>
      [] c = "'" -> <<"&", "#", "x", "2", "7", ";">>
      [] OTHER -> <<c>>

\* EscapeFrom is the result for the text from position i on
RECURSIVE EscapeFrom(_, _)
EscapeFrom(s, i) ==
    LET specials == {k \in i..Len(s) : EscapeChar(s[k]) # <<s[k]>>}
        k == MinOf(specials)
    IN  IF specials = {} THEN SubSeq(s, i, Len(s))
        ELSE SubSeq(s, i, k - 1) \o EscapeChar(s[k]) \o EscapeFrom(s, k + 1)

html_escape(s) == EscapeFrom(s, 1)

\* str.strip(): leading and trailing whitespace is removed
Whitespace == {" ", "\t", "\n", "\r", "\f"}

strip(s) ==
    LET keep == {i \in 1..Len(s) : s[i] \notin Whitespace}
    IN  IF keep = {} THEN << >> ELSE SubSeq(s, MinOf(keep), MaxOf(keep))

\* sanitize_input(text)
sanitize_input(text) ==
    LET escaped == html_escape(str(text))
    IN  strip(re_sub(5, re_sub(4, re_sub(3, re_sub(2, re_sub(1, escaped))))))

\* a (bool, str) result; a message is the sequence of the parts its f-string
\* is put together from
Ok == [ok |-> TRUE, msg |-> <<"">>]
Fail(msg) == [ok |-> FALSE, msg |-> msg]

\* a variant of validate_id_format: the length test is >= instead of >
validate_id_format_ge(identifier) ==
    IF Falsy(identifier) THEN Fail(<<"ID cannot be empty">>)
    ELSE IF Len(identifier) >= MAX_ID_LENGTH
    THEN Fail(<<"ID too long (max ", ToString(MAX_ID_LENGTH), " characters)">>)
    ELSE IF ~IdPatternMatch(identifier)
    THEN Fail(<<"ID contains invalid characters (only alphanumeric, underscore, and dash allowed)">>)
    ELSE Ok

\* validate_id_format(identifier)
validate_id_format(identifier) ==
    IF Falsy(identifier) THEN Fail(<<"ID cannot be empty">>)
    ELSE IF Len(identifier) > MAX_ID_LENGTH
    THEN Fail(<<"ID too long (max ", ToString(MAX_ID_LENGTH), " characters)">>)
    ELSE IF ~IdPatternMatch(identifier)
    THEN Fail(<<"ID contains invalid characters (only alphanumeric, underscore, and dash allowed)">>)
    ELSE Ok

\* validate_text_field(text, field_name, max_length)
validate_text_field(text, field_name, max_length) ==
    IF Falsy(text) THEN Fail(<<field_name, " cannot be empty">>)
    ELSE IF Len(text) > max_length
    THEN Fail(<<field_name, " too long (max ", ToString(max_length), " characters)">>)
    ELSE IF \E p \in 1..NPatterns : re_search(p, text)
    THEN Fail(<<field_name, " contains potentially malicious content">>)
    ELSE Ok

\* The request data is Optional[dict]: the empty tuple is None, a one-element
\* tuple holds the dict, a function from its keys to its values (a str or
\* None each).
NoData == << >>

\* a variant of CheckField that does not tell an empty value from an absent
\* key
CheckFieldEmptyIsMissing(d, field, text_field, max_length) ==
    IF field \notin DOMAIN d \/ Falsy(d[field])
    THEN Fail(<<"Missing required field: ", field>>)
    ELSE IF field \in {"playerId", "challengeId"}
    THEN LET r == validate_id_format(str(d[field]))
         IN  IF r.ok THEN Ok ELSE Fail(<<field, ": ">> \o r.msg)
    ELSE IF field = text_field
    THEN validate_text_field(str(d[field]), field, max_length)
    ELSE Ok

\* The body of the loop "for field in required_fields" of
\* validate_challenge_data and validate_submission_data, for one field;
\* text_field is the field checked as text, with at most max_length characters
CheckField(d, field, text_field, max_length) ==
    IF field \notin DOMAIN d THEN Fail(<<"Missing required field: ", field>>)
    ELSE IF Falsy(d[field]) THEN Fail(<<"Empty value for field: ", field>>)
    ELSE IF field \in {"playerId", "challengeId"}
    THEN LET r == validate_id_format(str(d[field]))
         IN  IF r.ok THEN Ok ELSE Fail(<<field, ": ">> \o r.msg)
    ELSE IF field = text_field
    THEN validate_text_field(str(d[field]), field, max_length)
    ELSE Ok

\* a variant of FirstFailure: all the fields are looked up first, the values
\* are checked afterwards
FirstFailureMissingFirst(d, required_fields, text_field, max_length) ==
    LET absent == {i \in 1..Len(required_fields) : required_fields[i] \notin DOMAIN d}
        bad == {i \in 1..Len(required_fields) :
                  ~CheckField(d, required_fields[i], text_field, max_length).ok}
    IN  IF absent # {}
        THEN CheckField(d, required_fields[MinOf(absent)], text_field, max_length)
        ELSE IF bad = {} THEN Ok
        ELSE CheckField(d, required_fields[MinOf(bad)], text_field, max_length)

\* The loop with its early returns: the result for the first field, in the
\* order of required_fields, whose check fails
FirstFailure(d, required_fields, text_field, max_length) ==
    LET bad == {i \in 1..Len(required_fields) :
                  ~CheckField(d, required_fields[i], text_field, max_length).ok}
    IN  IF bad = {} THEN Ok
        ELSE CheckField(d, required_fields[MinOf(bad)], text_field, max_length)

\* "Sanitize all inputs": data[field] = sanitize_input(str(data[field])) for
\* the required fields that are in data
SanitizeFields(d, required_fields) ==
    [k \in DOMAIN d |->
        IF \E i \in 1..Len(required_fields) : required_fields[i] = k
        THEN sanitize_input(str(d[k]))
        ELSE d[k]]

\* The common body of the two validators; yields the (bool, str) result and
\* the data as the call leaves it
ValidateData(data, required_fields, text_field, max_length) ==
    IF data = NoData \/ DOMAIN data[1] = {}
    THEN [ok |-> FALSE, msg |-> <<"No JSON data provided">>, data |-> data]
    ELSE LET r == FirstFailure(data[1], required_fields, text_field, max_length)
         IN  IF ~r.ok THEN [ok |-> FALSE, msg |-> r.msg, data |-> data]
             ELSE [ok |-> TRUE, msg |-> <<"">>,
                   data |-> <<SanitizeFields(data[1], required_fields)>>]

\* validate_challenge_data(data)
validate_challenge_data(data) ==
    ValidateData(data, <<"playerId", "playerName", "challengeId">>, "playerName", 100)

\* validate_submission_data(data)
validate_submission_data(data) ==
    ValidateData(data, <<"playerId", "challengeId", "submissionText">>, "submissionText", 5000)

\* validate_status_query(player_id, challenge_id)
validate_status_query(player_id, challenge_id) ==
    IF Falsy(player_id) THEN Fail(<<"Missing required parameter: playerId">>)
    ELSE IF Falsy(challenge_id) THEN Fail(<<"Missing required parameter: challengeId">>)
    ELSE LET r1 == validate_id_format(player_id)
             r2 == validate_id_format(challenge_id)
         IN  IF ~r1.ok THEN Fail(<<"playerId: ">> \o r1.msg)
             ELSE IF ~r2.ok THEN Fail(<<"challengeId: ">> \o r2.msg)
             ELSE Ok

(***************************************************************************)
(* SpecV: the validators as functions.  Init draws one input, the action   *)
(* of the validator named by the input applies it.                         *)
(***************************************************************************)
MaxIdLen == 2    \* identifiers: every string up to this length is an input

StringsUpTo(A, n) == UNION {[1..k -> A] : k \in 0..n}

BadId == <<"b", "a", "d", " ", "i", "d", "!">>
Onload == <<"o", "n", "l", "o", "a", "d">>
EvalWord == <<"e", "v", "a", "l">>
Javascript == <<"j", "a", "v", "a", "s", "c", "r", "i", "p", "t">>
MixedId == <<"A", "-", "b", "_", "9">>
AliceSmith == <<"A", "l", "i", "c", "e", " ", "S", "m", "i", "t", "h">>
ScriptText ==
    <<"<", "s", "c", "r", "i", "p", "t", ">", "a", "l", "e", "r", "t", "(", "1", ")",
      "<", "/", "s", "c", "r", "i", "p", "t", ">">>
LongestId == [i \in 1..MAX_ID_LENGTH |-> "a"]
TooLongId == [i \in 1..(MAX_ID_LENGTH + 1) |-> "a"]
P1Newline == P1 \o <<"\n">>

IdAlphabet == {"a", "Z", "7", "_", "-", " ", "!", "\n"}
IdInputs ==
    StringsUpTo(IdAlphabet, MaxIdLen)
        \cup {P1, BadId, LongestId, TooLongId, LongestId \o <<"\n">>}

\* values of a field of a request: identifiers, and values that are empty,
\* null, malformed or text
IdLikeValues == {P1, C01, Onload, EvalWord, Javascript, MixedId, LongestId}
OtherValues ==
    {EmptyStr, None, BadId, P1Newline, TooLongId, <<" ">>, ScriptText, AliceSmith}
FieldValues == IdLikeValues \cup OtherValues

DictsOver(keys, values) == UNION {[K -> values] : K \in SUBSET keys}

\* a dict with one more key, which no validator asks for
WithExtra(d) == [k \in DOMAIN d \cup {"extra"} |-> IF k = "extra" THEN P1 ELSE d[k]]

DataInputs(keys) ==
    {NoData}
        \cup {<<d>> : d \in DictsOver(keys, FieldValues)}
        \cup {<<WithExtra(d)>> : d \in DictsOver(keys, {P1, BadId, EmptyStr})}

ChallengeKeys == {"playerId", "playerName", "challengeId"}
SubmissionKeys == {"playerId", "challengeId", "submissionText"}
QueryValues == {None, EmptyStr, P1, C01, BadId, P1Newline, LongestId, TooLongId}

ValidatorInputs ==
    {[fn |-> "validate_id_format", arg |-> s] : s \in IdInputs}
        \cup {[fn |-> "validate_challenge_data", arg |-> d] : d \in DataInputs(ChallengeKeys)}
        \cup {[fn |-> "validate_submission_data", arg |-> d] : d \in DataInputs(SubmissionKeys)}
        \cup {[fn |-> "validate_status_query", arg |-> q] : q \in QueryValues \X QueryValues}

InitV ==
    /\ playerlog = <<PlayerLogHeader>>
    /\ challenges = <<ChallengesHeader>>
    /\ snapshot = NoFrame
    /\ inflight = NoCalls
    /\ db = EmptyDb
    /\ sheet = FALSE
    /\ last = NoCall
    /\ payload \in ValidatorInputs
    /\ verdict = NoVerdict

ApplyValidateIdFormat ==
    /\ verdict = NoVerdict
    /\ payload.fn = "validate_id_format"
    /\ LET r == validate_id_format(payload.arg)
       IN  verdict' = [fn |-> payload.fn, ok |-> r.ok, msg |-> r.msg, data |-> << >>]
    /\ UNCHANGED <<inflight, db, playerlog, sheet, last, payload, challenges, snapshot>>

ApplyValidateChallengeData ==
    /\ verdict = NoVerdict
    /\ payload.fn = "validate_challenge_data"
    /\ LET r == validate_challenge_data(payload.arg)
       IN  verdict' = [fn |-> payload.fn, ok |-> r.ok, msg |-> r.msg, data |-> r.data]
    /\ UNCHANGED <<inflight, db, playerlog, sheet, last, payload, challenges, snapshot>>

ApplyValidateSubmissionData ==
    /\ verdict = NoVerdict
    /\ payload.fn = "validate_submission_data"
    /\ LET r == validate_submission_data(payload.arg)
       IN  verdict' = [fn |-> payload.fn, ok |-> r.ok, msg |-> r.msg, data |-> r.data]
    /\ UNCHANGED <<inflight, db, playerlog, sheet, last, payload, challenges, snapshot>>

ApplyValidateStatusQuery ==
    /\ verdict = NoVerdict
    /\ payload.fn = "validate_status_query"
    /\ LET r == validate_status_query(payload.arg[1], payload.arg[2])
       IN  verdict' = [fn |-> payload.fn, ok |-> r.ok, msg |-> r.msg, data |-> << >>]
    /\ UNCHANGED <<inflight, db, playerlog, sheet, last, payload, challenges, snapshot>>

NextV ==
    \/ ApplyValidateIdFormat
    \/ ApplyValidateChallengeData
    \/ ApplyValidateSubmissionData
    \/ ApplyValidateStatusQuery

SpecV == InitV /\ [][NextV]_vars

(***************************************************************************)
(* goreal/api/routes.py: the handlers.  A response is the status code and  *)
(* the JSON body; each operator yields the response together with the      *)
(* worksheet, the cached handle and the store calls after the request.     *)
(***************************************************************************)
Response(ws, sh, calls, code, body) ==
    [ws |-> ws, sheet |-> sh, calls |-> calls, ret |-> [code |-> code, body |-> body]]

\* a variant of InternalServerError: a body without a message
InternalServerErrorBare == [status |-> "error"]

\* except Exception as e: the body of the 500 response; the text of e is not
\* modelled
InternalServerError ==
    [status |-> "error", message |-> <<"Internal server error: ", "<str(e)>">>]

\* The call of a method of sheets_client: res is what the method does, unless
\* the method is patched with a mock that raises
ClientCall(ws, sh, f, res, failure) ==
    IF f.mockRaises
    THEN [ws |-> ws, sheet |-> sh, ret |-> failure, raised |-> TRUE, calls |-> << >>]
    ELSE res

\* a variant of route_log_challenge: the row is logged before the data is
\* validated
route_log_challenge_log_first(ws, sh, f, now, data) ==
    LET d == data[1]
        res == log_challenge(ws, sh, f, now,
                             IF data # NoData /\ "playerId" \in DOMAIN d THEN d["playerId"] ELSE None,
                             IF data # NoData /\ "playerName" \in DOMAIN d THEN d["playerName"] ELSE None,
                             IF data # NoData /\ "challengeId" \in DOMAIN d THEN d["challengeId"] ELSE None,
                             Received, EmptyStr)
        v == validate_challenge_data(data)
    IN  IF ~v.ok
        THEN Response(res.ws, res.sheet, res.calls, 400,
                      [status |-> "error", message |-> v.msg])
        ELSE IF res.ret
        THEN Response(res.ws, res.sheet, res.calls, 200,
                      [status |-> "success", message |-> <<"Data logged successfully">>])
        ELSE Response(res.ws, res.sheet, res.calls, 500,
                      [status |-> "error",
                       message |-> <<"Failed to log data to Google Sheets">>])

\* a variant of route_log_challenge: the value that log_challenge returned is
\* not looked at
route_log_challenge_unchecked(ws, sh, f, now, data) ==
    LET v == validate_challenge_data(data)
        d == v.data[1]
        res == ClientCall(ws, sh, f,
                          log_challenge(ws, sh, f, now, d["playerId"], d["playerName"],
                                        d["challengeId"], Received, EmptyStr),
                          FALSE)
    IN  IF ~v.ok
        THEN Response(ws, sh, << >>, 400, [status |-> "error", message |-> v.msg])
        ELSE IF res.raised
        THEN Response(res.ws, res.sheet, res.calls, 500, InternalServerError)
        ELSE Response(res.ws, res.sheet, res.calls, 200,
                      [status |-> "success", message |-> <<"Data logged successfully">>])

\* POST /log_challenge with the JSON data of the request
route_log_challenge(ws, sh, f, now, data) ==
    LET v == validate_challenge_data(data)
        d == v.data[1]
        res == ClientCall(ws, sh, f,
                          log_challenge(ws, sh, f, now, d["playerId"], d["playerName"],
                                        d["challengeId"], Received, EmptyStr),
                          FALSE)
    IN  IF ~v.ok
        THEN Response(ws, sh, << >>, 400, [status |-> "error", message |-> v.msg])
        ELSE IF res.raised
        THEN Response(res.ws, res.sheet, res.calls, 500, InternalServerError)
        ELSE IF res.ret
        THEN Response(res.ws, res.sheet, res.calls, 200,
                      [status |-> "success", message |-> <<"Data logged successfully">>])
        ELSE Response(res.ws, res.sheet, res.calls, 500,
                      [status |-> "error",
                       message |-> <<"Failed to log data to Google Sheets">>])

\* a variant of route_submit_challenge: a failed update is answered like a
\* failed log, with 500
route_submit_challenge_fail_500(ws, sh, f, data) ==
    LET v == validate_submission_data(data)
        d == v.data[1]
        res == update_submission(ws, sh, f, d["playerId"], d["challengeId"],
                                 d["submissionText"], Submitted)
    IN  IF ~v.ok
        THEN Response(ws, sh, << >>, 400, [status |-> "error", message |-> v.msg])
        ELSE IF res.ret
        THEN Response(res.ws, res.sheet, res.calls, 200,
                      [status |-> "success", message |-> <<"Submission received.">>])
        ELSE Response(res.ws, res.sheet, res.calls, 500,
                      [status |-> "error",
                       message |-> <<"Failed to update data in Google Sheets">>])

\* POST /submit_challenge with the JSON data of the request
route_submit_challenge(ws, sh, f, data) ==
    LET v == validate_submission_data(data)
        d == v.data[1]
        res == ClientCall(ws, sh, f,
                          update_submission(ws, sh, f, d["playerId"], d["challengeId"],
                                            d["submissionText"], Submitted),
                          FALSE)
    IN  IF ~v.ok
        THEN Response(ws, sh, << >>, 400, [status |-> "error", message |-> v.msg])
        ELSE IF res.raised
        THEN Response(res.ws, res.sheet, res.calls, 500, InternalServerError)
        ELSE IF res.ret
        THEN Response(res.ws, res.sheet, res.calls, 200,
                      [status |-> "success", message |-> <<"Submission received.">>])
        ELSE Response(res.ws, res.sheet, res.calls, 404,
                      [status |-> "error",
                       message |-> <<"No matching challenge log found for playerId ",
                                     d["playerId"], " and challengeId ", d["challengeId"]>>])

\* GET /get_status?playerId=&challengeId= ; a parameter that is not given is
\* None
route_get_status(ws, sh, f, player_id, challenge_id) ==
    LET v == validate_status_query(player_id, challenge_id)
        res == ClientCall(ws, sh, f,
                          get_player_status(ws, sh, f, player_id, challenge_id),
                          NoDict)
        status_data == res.ret[1]
    IN  IF ~v.ok
        THEN Response(ws, sh, << >>, 400, [status |-> "error", message |-> v.msg])
        ELSE IF res.raised
        THEN Response(res.ws, res.sheet, res.calls, 500, InternalServerError)
        ELSE IF res.ret # NoDict
        THEN Response(res.ws, res.sheet, res.calls, 200,
                      [status |-> "Found",
                       challengeStatus |-> status_data.status,
                       timestamp |-> status_data.timestamp,
                       playerName |-> status_data.playerName,
                       submissionText |-> status_data.submissionText])
        ELSE Response(res.ws, res.sheet, res.calls, 404,
                      [status |-> "NotFound", challengeStatus |-> None])

\* GET /get_challenges
route_get_challenges(ws, chs, sh, f) ==
    LET got == get_challenges(chs, sh, f)
        res == ClientCall(ws, sh, f,
                          [ws |-> ws, sheet |-> got.sheet, ret |-> got.ret,
                           raised |-> got.raised, calls |-> got.calls],
                          << >>)
        challenges_list == res.ret
    IN  IF res.raised
        THEN Response(res.ws, res.sheet, res.calls, 500,
                      [status |-> "error",
                       message |-> InternalServerError.message,
                       challenges |-> << >>])
        ELSE Response(res.ws, res.sheet, res.calls, 200,
                      [status |-> "success",
                       message |-> <<"Retrieved ", Len(challenges_list),
                                     " challenges successfully">>,
                       challenges |-> challenges_list])

\* The body of a POST request as Flask sees it: a JSON document sent as
\* application/json (an object, or null), such a body that does not parse, a
\* body of another content type, or no body at all
JsonBody(data) == [kind |-> "json", data |-> data]
MalformedJsonBody == [kind |-> "malformed", data |-> NoData]
FormBody == [kind |-> "form", data |-> NoData]
NoBody == [kind |-> "none", data |-> NoData]

\* a variant of get_json: request.get_json(silent=True), None for a body that
\* is no JSON
get_json_silent(body) == [ret |-> body.data, raised |-> FALSE]

\* request.get_json() of Flask 2.3 and later (setup.py: flask>=2.3.0): the
\* parsed document; BadRequest is raised for a body that does not parse and
\* UnsupportedMediaType for a request that is not application/json
get_json(body) == [ret |-> body.data, raised |-> body.kind # "json"]

\* POST /log_challenge from the request as it arrives: get_json() is the first
\* statement of the try block
post_log_challenge(ws, sh, f, now, body) ==
    LET parsed == get_json(body)
    IN  IF parsed.raised
        THEN Response(ws, sh, << >>, 500, InternalServerError)
        ELSE route_log_challenge(ws, sh, f, now, parsed.ret)

(***************************************************************************)
(* SpecApi: requests to the three endpoints, handled one after the other   *)
(* by the module's one sheets_client, against a store that answers every   *)
(* request.  last holds the request being answered, from the handler's run *)
(* until its response is sent.                                             *)
(***************************************************************************)
MaxApiRows == 1    \* data rows of PlayerLog under SpecApi

ScriptNewline ==
    <<"<", "s", "c", "r", "i", "p", "t", ">", "\n", "a", "l", "e", "r", "t", "(", "1", ")",
      "<", "/", "s", "c", "r", "i", "p", "t", ">">>
ScriptUpperAttr ==
    <<"<", "S", "C", "R", "I", "P", "T", " ", "s", "r", "c", "=", "x", ">", "a",
      "<", "/", "S", "c", "R", "i", "P", "t", ">">>
JavascriptUrl == <<"J", "a", "v", "a", "S", "c", "r", "i", "p", "t", ":", "x">>
OnclickAttr == <<"a", " ", "O", "n", "C", "l", "i", "c", "k", "=", "x">>
ExpressionCall == <<"e", "x", "p", "r", "e", "s", "s", "i", "o", "n", "(", "1", ")">>
EvalCall == <<"E", "V", "A", "L", "(", "1", ")">>

SubmissionTexts ==
    {done, ScriptText, ScriptNewline, ScriptUpperAttr, JavascriptUrl, OnclickAttr,
     ExpressionCall, EvalCall}

\* a text of white space only: the JSON string " "
Blank == <<" ">>

\* the JSON object {}
EmptyObject == [k \in {} |-> EmptyStr]

LogPayloads ==
    {NoData,
     <<[playerId |-> P1, playerName |-> Alice, challengeId |-> C01]>>,
     <<[playerId |-> P2, playerName |-> Alice, challengeId |-> C01]>>,
     <<[playerId |-> BadId, playerName |-> Alice, challengeId |-> C01]>>,
     <<[playerId |-> P1, challengeId |-> C01]>>,
     <<[playerId |-> P1, playerName |-> ScriptText]>>,
     <<[playerId |-> P1, playerName |-> EmptyStr, challengeId |-> C01]>>,
     <<[playerId |-> P1, playerName |-> None, challengeId |-> C01]>>,
     <<EmptyObject>>}

SubmitPayloads ==
    {<<[playerId |-> P1, challengeId |-> C01, submissionText |-> t]>> : t \in SubmissionTexts}
        \cup {NoData,
              <<[playerId |-> P2, challengeId |-> C01, submissionText |-> done]>>,
              <<[playerId |-> P1, challengeId |-> C02, submissionText |-> done]>>,
              <<[playerId |-> BadId, challengeId |-> C01, submissionText |-> done]>>,
              <<[playerId |-> P1, challengeId |-> C01, submissionText |-> EmptyStr]>>,
              <<[playerId |-> P1, challengeId |-> C01, submissionText |-> None]>>,
              <<[playerId |-> P1, challengeId |-> C01]>>,
              <<[challengeId |-> C01, submissionText |-> ScriptText]>>}

StatusQueries == {P1, P2, BadId, None} \X {C01, None}

PostLogChallenge ==
    \E data \in LogPayloads, now \in Clock :
        \E res \in {route_log_challenge(playerlog, sheet, NoFault, now, data)} :
            /\ last.op = "none"
            /\ Len(res.ws) - 1 <= MaxApiRows
            /\ playerlog' = res.ws
            /\ sheet' = res.sheet
            /\ last' = [op |-> "POST /log_challenge", args |-> <<data>>,
                        ret |-> res.ret, calls |-> res.calls]
            /\ UNCHANGED <<inflight, db, payload, verdict, challenges, snapshot>>

PostSubmitChallenge ==
    \E data \in SubmitPayloads :
        \E res \in {route_submit_challenge(playerlog, sheet, NoFault, data)} :
            /\ last.op = "none"
            /\ playerlog' = res.ws
            /\ sheet' = res.sheet
            /\ last' = [op |-> "POST /submit_challenge", args |-> <<data>>,
                        ret |-> res.ret, calls |-> res.calls]
            /\ UNCHANGED <<inflight, db, payload, verdict, challenges, snapshot>>

GetStatus ==
    \E q \in StatusQueries :
        \E res \in {route_get_status(playerlog, sheet, NoFault, q[1], q[2])} :
            /\ last.op = "none"
            /\ playerlog' = res.ws
            /\ sheet' = res.sheet
            /\ last' = [op |-> "GET /get_status", args |-> q,
                        ret |-> res.ret, calls |-> res.calls]
            /\ UNCHANGED <<inflight, db, payload, verdict, challenges, snapshot>>

\* the response has been sent (or the call has returned) and the next
\* request can be handled
SendResponse ==
    /\ last.op # "none"
    /\ last' = NoCall
    /\ UNCHANGED <<inflight, db, playerlog, sheet, payload, verdict, challenges, snapshot>>

NextApi ==
    \/ PostLogChallenge
    \/ PostSubmitChallenge
    \/ GetStatus
    \/ SendResponse

SpecApi == Init /\ [][NextApi]_vars

(***************************************************************************)
(* SpecFault: the four endpoints and the client's methods, one call after  *)
(* the other, against a store that may fail at any request, and with the   *)
(* request bodies that are no JSON object.  A handler's client method may  *)
(* be patched with a raising mock.                                         *)
(***************************************************************************)
Title1 == <<"R", "u", "n">>
Title2 == <<"S", "w", "i", "m">>
Desc1 == <<"R", "u", "n", " ", "1", "k", "m">>
Desc2 == <<"S", "w", "i", "m", " ", "1", "k", "m">>
Points1 == <<"1", "0", "0">>
Points2 == <<"2", "0", "0">>
ChallengeRow1 == <<C01, Title1, Desc1, Points1>>
ChallengeRow2 == <<C02, Title2, Desc2, Points2>>

\* the Challenges worksheet: blank, header only, and a catalog of two
\* challenges, C02 above C01
ChallengeTables ==
    {<< >>,
     <<ChallengesHeader>>,
     <<ChallengesHeader, ChallengeRow2, ChallengeRow1>>}

\* the store is down or the credentials are missing / one request raises
StoreDown == [up |-> FALSE, failAt |-> 0, mockRaises |-> FALSE]
FailAt(n) == [up |-> TRUE, failAt |-> n, mockRaises |-> FALSE]
MockRaises == [up |-> TRUE, failAt |-> 0, mockRaises |-> TRUE]

StoreFaults == {NoFault, StoreDown} \cup {FailAt(n) : n \in 1..4}
HandlerFaults == StoreFaults \cup {MockRaises}

\* the faults that make a difference to connect(), and to the operations that
\* send one request to the worksheet
ConnectFaults == {NoFault, StoreDown}
ReadFaults == {NoFault, StoreDown} \cup {FailAt(n) : n \in 1..2}
ReadHandlerFaults == ReadFaults \cup {MockRaises}

ValidLog == <<[playerId |-> P1, playerName |-> Alice, challengeId |-> C01]>>
ValidSubmit == <<[playerId |-> P1, challengeId |-> C01, submissionText |-> done]>>

\* a name that html.escape rewrites
AmpName == <<"A", "&", "B">>
AmpNameEscaped == <<"A", "&", "a", "m", "p", ";", "B">>
ValidLogAmp == <<[playerId |-> P1, playerName |-> AmpName, challengeId |-> C01]>>

LogBodies ==
    {JsonBody(ValidLog), JsonBody(ValidLogAmp), JsonBody(NoData),
     JsonBody(<<[playerName |-> Alice, challengeId |-> C01]>>),
     MalformedJsonBody, FormBody, NoBody}

FaultSubmitPayloads == {ValidSubmit, NoData}
FaultStatusQueries == {<<P1, C01>>, <<None, C01>>}

InitFault ==
    /\ playerlog = <<PlayerLogHeader>>
    /\ challenges \in ChallengeTables
    /\ snapshot = NoFrame
    /\ inflight = NoCalls
    /\ db = EmptyDb
    /\ sheet = FALSE
    /\ last = NoCall
    /\ payload = NoPayload
    /\ verdict = NoVerdict

HandleLogChallenge ==
    \E body \in LogBodies, f \in ReadHandlerFaults :
        \E res \in {post_log_challenge(playerlog, sheet, f, T1, body)} :
            /\ last.op = "none"
            /\ Len(res.ws) - 1 <= MaxApiRows
            /\ playerlog' = res.ws
            /\ sheet' = res.sheet
            /\ last' = [op |-> "POST /log_challenge", args |-> <<body>>, env |-> f,
                        ret |-> res.ret, calls |-> res.calls]
            /\ UNCHANGED <<inflight, db, payload, verdict, challenges, snapshot>>

HandleSubmitChallenge ==
    \E data \in FaultSubmitPayloads, f \in HandlerFaults :
        \E res \in {route_submit_challenge(playerlog, sheet, f, data)} :
            /\ last.op = "none"
            /\ playerlog' = res.ws
            /\ sheet' = res.sheet
            /\ last' = [op |-> "POST /submit_challenge", args |-> <<data>>, env |-> f,
                        ret |-> res.ret, calls |-> res.calls]
            /\ UNCHANGED <<inflight, db, payload, verdict, challenges, snapshot>>

HandleGetStatus ==
    \E q \in FaultStatusQueries, f \in ReadHandlerFaults :
        \E res \in {route_get_status(playerlog, sheet, f, q[1], q[2])} :
            /\ last.op = "none"
            /\ playerlog' = res.ws
            /\ sheet' = res.sheet
            /\ last' = [op |-> "GET /get_status", args |-> q, env |-> f,
                        ret |-> res.ret, calls |-> res.calls]
            /\ UNCHANGED <<inflight, db, payload, verdict, challenges, snapshot>>

HandleGetChallenges ==
    \E f \in ReadHandlerFaults :
        \E res \in {route_get_challenges(playerlog, challenges, sheet, f)} :
            /\ last.op = "none"
            /\ playerlog' = res.ws
            /\ sheet' = res.sheet
            /\ last' = [op |-> "GET /get_challenges", args |-> << >>, env |-> f,
                        ret |-> res.ret, calls |-> res.calls]
            /\ UNCHANGED <<inflight, db, payload, verdict, challenges, snapshot>>

\* client.connect() called directly: the handle is stored when it succeeds
CallConnect ==
    \E f \in ConnectFaults :
        \E res \in {connect(f)} :
            /\ last.op = "none"
            /\ sheet' = (sheet \/ res.ret)
            /\ last' = [op |-> "connect", args |-> << >>, env |-> f,
                        ret |-> res.ret, raised |-> res.raised, calls |-> <<"connect">>]
            /\ UNCHANGED <<inflight, db, playerlog, payload, verdict, challenges, snapshot>>

CallLogChallenge ==
    \E f \in ReadFaults :
        \E res \in {log_challenge(playerlog, sheet, f, T1, P1, Alice, C01,
                                  Received, EmptyStr)} :
            /\ last.op = "none"
            /\ Len(res.ws) - 1 <= MaxApiRows
            /\ playerlog' = res.ws
            /\ sheet' = res.sheet
            /\ last' = [op |-> "log_challenge", args |-> <<P1, Alice, C01>>, env |-> f,
                        ret |-> res.ret, raised |-> res.raised, calls |-> res.calls]
            /\ UNCHANGED <<inflight, db, payload, verdict, challenges, snapshot>>

CallUpdateSubmission ==
    \E f \in StoreFaults :
        \E res \in {update_submission(playerlog, sheet, f, P1, C01, done, Submitted)} :
            /\ last.op = "none"
            /\ playerlog' = res.ws
            /\ sheet' = res.sheet
            /\ last' = [op |-> "update_submission", args |-> <<P1, C01, done, Submitted>>,
                        env |-> f, ret |-> res.ret, raised |-> res.raised,
                        calls |-> res.calls]
            /\ UNCHANGED <<inflight, db, payload, verdict, challenges, snapshot>>

CallGetPlayerStatus ==
    \E f \in ReadFaults :
        \E res \in {get_player_status(playerlog, sheet, f, P1, C01)} :
            /\ last.op = "none"
            /\ playerlog' = res.ws
            /\ sheet' = res.sheet
            /\ last' = [op |-> "get_player_status", args |-> <<P1, C01>>, env |-> f,
                        ret |-> res.ret, raised |-> res.raised, calls |-> res.calls]
            /\ UNCHANGED <<inflight, db, payload, verdict, challenges, snapshot>>

CallGetChallenges ==
    \E f \in ReadFaults :
        \E res \in {get_challenges(challenges, sheet, f)} :
            /\ last.op = "none"
            /\ sheet' = res.sheet
            /\ last' = [op |-> "get_challenges", args |-> << >>, env |-> f,
                        ret |-> res.ret, raised |-> res.raised, calls |-> res.calls]
            /\ UNCHANGED <<inflight, db, playerlog, payload, verdict, challenges, snapshot>>

NextFault ==
    \/ HandleLogChallenge
    \/ HandleSubmitChallenge
    \/ HandleGetStatus
    \/ HandleGetChallenges
    \/ CallConnect
    \/ CallLogChallenge
    \/ CallUpdateSubmission
    \/ CallGetPlayerStatus
    \/ CallGetChallenges
    \/ SendResponse

SpecFault == InitFault /\ [][NextFault]_vars

(***************************************************************************)
(* Properties of GoogleSheetsClient, checked under Spec.                   *)
(***************************************************************************)
\* The data rows of PlayerLog (rows 2..Len) that hold the pair, by position
RowsOf(ws, player_id, challenge_id) ==
    {i \in 2..Len(ws) : ws[i][2] = player_id /\ ws[i][4] = challenge_id}

\* C1: read-after-write.  When update_submission(playerId, challengeId, text,
\* status) has returned True and the very next call is
\* get_player_status(playerId, challengeId), that call returns a record whose
\* status and submissionText are exactly the status and text just written.
C1_ReadAfterWrite ==
    [][(/\ last.op = "update_submission"
        /\ last.ret = TRUE
        /\ last'.op = "get_player_status"
        /\ last'.args = <<last.args[1], last.args[2]>>)
       => (/\ last'.ret # NoDict
           /\ last'.ret[1].status = last.args[4]
           /\ last'.ret[1].submissionText = last.args[3])]_vars

\* C1 witness: get_player_status has returned a status and a text that only
\* update_submission writes, for a pair that also has an older row.
C1_Witness ==
    /\ last.op = "get_player_status"
    /\ last.ret # NoDict
    /\ last.ret[1].status = Completed
    /\ last.ret[1].submissionText = redo
    /\ Cardinality(RowsOf(playerlog, last.args[1], last.args[2])) >= 2

\* C2: get_player_status(playerId, challengeId) returns None (NoDict) when no row of
\* PlayerLog holds the pair; otherwise it returns the Status, Timestamp,
\* PlayerName and SubmissionText of the row holding the pair that is lowest
\* in the table, whatever the timestamps of the rows say.
C2_MostRecentByPosition ==
    last.op = "get_player_status" =>
        LET hits == RowsOf(playerlog, last.args[1], last.args[2])
            row == playerlog[MaxOf(hits)]
        IN  IF hits = {}
            THEN last.ret = NoDict
            ELSE last.ret = <<[status |-> row[5], timestamp |-> row[1],
                               playerName |-> row[3], submissionText |-> row[6]]>>

\* C2 witness: the pair has two rows, the lower one carries the earlier
\* timestamp and another status, and get_player_status has answered.
C2_Witness ==
    /\ last.op = "get_player_status"
    /\ last.ret # NoDict
    /\ \E i, j \in RowsOf(playerlog, last.args[1], last.args[2]) :
            /\ i < j
            /\ playerlog[i][1] = T1
            /\ playerlog[j][1] = T2
            /\ playerlog[i][5] # playerlog[j][5]

\* C3: every log_challenge call that returns True adds exactly one row at the
\* end of PlayerLog, holding the arguments with status "Received" and an
\* empty submissionText, and leaves every row that existed unchanged, also
\* when the pair already has rows.
C3_LogAlwaysAppends ==
    [][(last'.op = "log_challenge" /\ last'.ret = TRUE)
       => (/\ Len(playerlog') = Len(playerlog) + 1
           /\ SubSeq(playerlog', 1, Len(playerlog)) = playerlog
           /\ \E now \in Clock :
                playerlog'[Len(playerlog')] =
                    <<now, last'.args[1], last'.args[2], last'.args[3],
                      Received, EmptyStr>>)]_vars

\* C3 witness: two log_challenge calls with identical arguments (and the same
\* clock reading) have left two equal rows.
C3_Witness ==
    /\ last.op = "log_challenge"
    /\ last.ret = TRUE
    /\ Len(playerlog) = 3
    /\ playerlog[2] = playerlog[3]

\* C4: update_submission(playerId, challengeId, text, status).  When some row
\* holds the pair, it returns True and writes exactly the Status and the
\* SubmissionText cell of the lowest such row: every other cell and the row
\* count stay as they were.  When no row holds the pair it returns False and
\* PlayerLog stays as it was.
C4_UpdateFrame ==
    [][last'.op = "update_submission" =>
         LET hits == RowsOf(playerlog, last'.args[1], last'.args[2])
         IN  IF hits = {}
             THEN last'.ret = FALSE /\ playerlog' = playerlog
             ELSE /\ last'.ret = TRUE
                  /\ Len(playerlog') = Len(playerlog)
                  /\ \A i \in 1..Len(playerlog) :
                        /\ Len(playerlog'[i]) = Len(playerlog[i])
                        /\ \A j \in 1..Len(playerlog[i]) :
                              playerlog'[i][j] =
                                 IF i = MaxOf(hits) /\ j = 5 THEN last'.args[4]
                                 ELSE IF i = MaxOf(hits) /\ j = 6 THEN last'.args[3]
                                 ELSE playerlog[i][j]]_vars

\* C4 witness: update_submission has returned True where the pair has two
\* rows and the rows differ, the upper one still as it was logged.
C4_Witness ==
    /\ last.op = "update_submission"
    /\ last.ret = TRUE
    /\ \E i, j \in RowsOf(playerlog, last.args[1], last.args[2]) :
            /\ i < j
            /\ playerlog[i][5] = Received
            /\ playerlog[j][5] = last.args[4]
            /\ playerlog[j][6] = last.args[3]

(***************************************************************************)
(* Properties of the validators, checked under SpecV.                      *)
(***************************************************************************)
\* The identifier pattern as the specification words it: 1 to 100
\* characters, each of [A-Za-z0-9_-].  (None is no such string.)
WellFormedId(s) ==
    /\ Len(s) >= 1
    /\ Len(s) <= 100
    /\ \A i \in 1..Len(s) : s[i] \in AllowedIdChars

RequiredChallengeFields == <<"playerId", "playerName", "challengeId">>

\* the positions, in the declared order, of the required keys the dict lacks
AbsentKeys(d) == {i \in 1..3 : RequiredChallengeFields[i] \notin DOMAIN d}

\* C6 as claimed: whenever the payload lacks at least one of playerId,
\* playerName, challengeId, validate_challenge_data fails with "Missing
\* required field: <name>" for the first absent key in the declared order,
\* whatever the values of the keys that are present.  (Stated for the
\* payloads that hold at least one key; the payload {} fails with "No JSON
\* data provided".)
C6_MissingCheckedFirst ==
    (/\ verdict.fn = "validate_challenge_data"
     /\ payload.arg # NoData
     /\ DOMAIN payload.arg[1] # {}
     /\ AbsentKeys(payload.arg[1]) # {})
    => (/\ ~verdict.ok
        /\ verdict.msg = <<"Missing required field: ",
                           RequiredChallengeFields[MinOf(AbsentKeys(payload.arg[1]))]>>)

\* the per-field check a present key of validate_challenge_data is put to
FieldAccepted(d, field) ==
    /\ ~Falsy(d[field])
    /\ IF field = "playerName"
       THEN validate_text_field(str(d[field]), field, 100).ok
       ELSE validate_id_format(str(d[field])).ok

\* C6 as amended: the keys are examined one at a time in the order playerId,
\* playerName, challengeId, each for presence, then emptiness, then format.
\* A payload that lacks a key always fails; the message is "Missing required
\* field: <name>" for the first absent key exactly when every key before it
\* holds a non-empty value its format check accepts; otherwise it is the
\* "Empty value for field" or format message of the first such earlier key.
\* An empty payload fails with "No JSON data provided".
C6_FirstFailingFieldReported ==
    (/\ verdict.fn = "validate_challenge_data"
     /\ payload.arg # NoData
     /\ AbsentKeys(payload.arg[1]) # {})
    => LET d == payload.arg[1]
           a == MinOf(AbsentKeys(d))
           earlier == {i \in 1..(a - 1) : ~FieldAccepted(d, RequiredChallengeFields[i])}
           e == RequiredChallengeFields[MinOf(earlier)]
       IN  /\ ~verdict.ok
           /\ verdict.data = payload.arg
           /\ IF DOMAIN d = {}
              THEN verdict.msg = <<"No JSON data provided">>
              ELSE IF earlier = {}
              THEN verdict.msg = <<"Missing required field: ", RequiredChallengeFields[a]>>
              ELSE /\ verdict.msg[1] # "Missing required field: "
                   /\ \/ verdict.msg = <<"Empty value for field: ", e>>
                      \/ verdict.msg[1] = e

\* C6 witness: challengeId is absent, playerId is present and malformed, and
\* the verdict names playerId.
C6_Witness ==
    /\ verdict.fn = "validate_challenge_data"
    /\ payload.arg # NoData
    /\ DOMAIN payload.arg[1] = {"playerId", "playerName"}
    /\ payload.arg[1]["playerId"] = BadId
    /\ payload.arg[1]["playerName"] = AliceSmith
    /\ ~verdict.ok
    /\ verdict.msg[1] = "playerId"

\* C7: when playerId, playerName and challengeId are all present and each is
\* 1 to 100 characters of [A-Za-z0-9_-], validate_challenge_data returns
\* (True, "") and leaves the payload with the same keys and the same values.
C7_IdentifiersPassUnchanged ==
    (/\ verdict.fn = "validate_challenge_data"
     /\ payload.arg # NoData
     /\ ChallengeKeys \subseteq DOMAIN payload.arg[1]
     /\ \A k \in ChallengeKeys : WellFormedId(payload.arg[1][k]))
    => (/\ verdict.ok
        /\ verdict.msg = <<"">>
        /\ verdict.data = payload.arg)

\* C7 witness: a payload of identifiers that spell pattern words and reach
\* the length limit has been validated.
C7_Witness ==
    /\ verdict.fn = "validate_challenge_data"
    /\ payload.arg # NoData
    /\ DOMAIN payload.arg[1] = ChallengeKeys
    /\ payload.arg[1]["playerId"] = LongestId
    /\ payload.arg[1]["playerName"] = Onload
    /\ payload.arg[1]["challengeId"] = Javascript
    /\ verdict.ok

\* C8 as claimed: validate_id_format accepts a string if and only if it has
\* 1 to 100 characters, each of [A-Za-z0-9_-].
C8_AcceptsExactlyWellFormedIds ==
    verdict.fn = "validate_id_format" =>
        (verdict.ok <=> WellFormedId(payload.arg))

(***************************************************************************)
(* Properties of the handlers, checked under SpecApi.                      *)
(***************************************************************************)
\* A request's data holds field and its value is text
HasText(data, field) ==
    /\ data # NoData
    /\ field \in DOMAIN data[1]
    /\ data[1][field] # None

\* A valid submission: the three fields, two well-formed identifiers, and a
\* text the validator accepts
ValidSubmission(data) ==
    /\ \A k \in SubmissionKeys : HasText(data, k)
    /\ WellFormedId(data[1]["playerId"])
    /\ WellFormedId(data[1]["challengeId"])
    /\ validate_submission_data(data).ok

\* C5: POST /submit_challenge with a valid payload for a pair that has no row
\* in PlayerLog responds 404 with status "error" and a message that starts
\* "No matching challenge log found", and leaves PlayerLog as it was.
C5_SubmitWithoutLogIs404 ==
    [][(/\ last.op = "none"
        /\ last'.op = "POST /submit_challenge"
        /\ ValidSubmission(last'.args[1])
        /\ RowsOf(playerlog, last'.args[1][1]["playerId"],
                  last'.args[1][1]["challengeId"]) = {})
       => (/\ last'.ret.code = 404
           /\ last'.ret.body.status = "error"
           /\ last'.ret.body.message[1] = "No matching challenge log found for playerId "
           /\ playerlog' = playerlog)]_vars

\* C5 witness: a valid submission for a pair without a row has been answered
\* while PlayerLog holds a row of another pair.
C5_Witness ==
    /\ last.op = "POST /submit_challenge"
    /\ ValidSubmission(last.args[1])
    /\ RowsOf(playerlog, last.args[1][1]["playerId"], last.args[1][1]["challengeId"]) = {}
    /\ Len(playerlog) > 1
    /\ last.ret.code = 404

\* The injection markers as the specification lists them, in any letter case:
\* a script element (an opening <script ...> tag and a later </script>), the
\* javascript: scheme, an on<word>= attribute, expression( and eval(.
HasScriptElement(s) ==
    \E i \in 1..Len(s), k \in 1..Len(s) :
        /\ LitAt(s, i, <<"<", "s", "c", "r", "i", "p", "t">>)
        /\ LitAt(s, k, <<"<", "/", "s", "c", "r", "i", "p", "t", ">">>)
        /\ \E j \in (i + 7)..(k - 1) : s[j] = ">"

HasEventHandler(s) ==
    \E i \in 1..Len(s), j \in 1..Len(s) :
        /\ LitAt(s, i, <<"o", "n">>)
        /\ j > i + 2
        /\ s[j] = "="
        /\ \A k \in (i + 2)..(j - 1) : s[k] \in WordChars

ContainsInjectionMarker(s) ==
    \/ HasScriptElement(s)
    \/ HasEventHandler(s)
    \/ \E i \in 1..Len(s) :
        \/ LitAt(s, i, <<"j", "a", "v", "a", "s", "c", "r", "i", "p", "t", ":">>)
        \/ LitAt(s, i, <<"e", "x", "p", "r", "e", "s", "s", "i", "o", "n", "(">>)
        \/ LitAt(s, i, <<"e", "v", "a", "l", "(">>)

\* C9 as claimed: a submission whose submissionText contains an injection
\* marker fails validate_submission_data, /submit_challenge answers 400, and
\* no cell of PlayerLog is written.
C9_MarkerTextRejected ==
    (/\ last.op = "POST /submit_challenge"
     /\ HasText(last.args[1], "submissionText")
     /\ ContainsInjectionMarker(last.args[1][1]["submissionText"]))
    => (/\ ~validate_submission_data(last.args[1]).ok
        /\ last.ret.code = 400
        /\ \A n \in 1..Len(last.calls) : last.calls[n] # "update_cell")

\* The validator of the endpoint rejects the request held in l
Rejected(l) ==
    CASE l.op = "POST /log_challenge" -> ~validate_challenge_data(l.args[1]).ok
      [] l.op = "POST /submit_challenge" -> ~validate_submission_data(l.args[1]).ok
      [] l.op = "GET /get_status" -> ~validate_status_query(l.args[1], l.args[2]).ok
      [] OTHER -> FALSE

\* C10: for /log_challenge, /submit_challenge and /get_status, a request the
\* validator rejects is answered 400 with status "error", and the handler
\* makes no store call: no connect, no read, no append, no cell update, so
\* PlayerLog and the cached handle stay as they were.
C10_ValidationShortCircuits ==
    [][(last.op = "none" /\ Rejected(last'))
       => (/\ last'.ret.code = 400
           /\ last'.ret.body.status = "error"
           /\ last'.calls = << >>
           /\ playerlog' = playerlog
           /\ sheet' = sheet)]_vars

\* C10 witness: a submission with a script element has been rejected while
\* PlayerLog holds a row of its pair that the update would have written to.
C10_Witness ==
    /\ last.op = "POST /submit_challenge"
    /\ Rejected(last)
    /\ HasText(last.args[1], "playerId")
    /\ HasText(last.args[1], "challengeId")
    /\ RowsOf(playerlog, last.args[1][1]["playerId"], last.args[1][1]["challengeId"]) # {}
    /\ last.ret.code = 400

(***************************************************************************)
(* Properties of the handlers and the client when the store fails, checked *)
(* under SpecFault.                                                        *)
(***************************************************************************)
Endpoints ==
    {"POST /log_challenge", "POST /submit_challenge", "GET /get_status",
     "GET /get_challenges"}

\* The request held in l passes its validator (GET /get_challenges has none)
Accepted(l) ==
    CASE l.op = "POST /log_challenge" ->
            l.args[1].kind = "json" /\ validate_challenge_data(l.args[1].data).ok
      [] l.op = "POST /submit_challenge" -> validate_submission_data(l.args[1]).ok
      [] l.op = "GET /get_status" -> validate_status_query(l.args[1], l.args[2]).ok
      [] l.op = "GET /get_challenges" -> TRUE
      [] OTHER -> FALSE

\* The store was unavailable to the call held in l: it could not be reached,
\* or a request that the call made (opening the worksheet, the read or the
\* append, a cell update) raised
StoreFailed(l) ==
    /\ ~l.env.mockRaises
    /\ \/ ~l.env.up
       \/ l.env.failAt \in {1, 2}
       \/ /\ l.env.failAt \in {3, 4}
          /\ \E n \in 1..Len(l.calls) : l.calls[n] = "update_cell"

\* C11 as claimed: when the store is unavailable, each of the four endpoints
\* answers an accepted request with status code 500.
C11_StoreFailureIs500 ==
    (last.op \in Endpoints /\ Accepted(last) /\ StoreFailed(last))
    => last.ret.code = 500

\* C11 amended: when the store is unavailable, only /log_challenge answers
\* 500 ("Failed to log data to Google Sheets"); /submit_challenge answers 404
\* "No matching challenge log found ...", /get_status answers 404 with status
\* "NotFound", and /get_challenges answers 200 with an empty array.
C11_StoreFailureResponses ==
    (last.op \in Endpoints /\ Accepted(last) /\ StoreFailed(last))
    => CASE last.op = "POST /log_challenge" ->
              /\ last.ret.code = 500
              /\ last.ret.body.status = "error"
              /\ last.ret.body.message = <<"Failed to log data to Google Sheets">>
         [] last.op = "POST /submit_challenge" ->
              /\ last.ret.code = 404
              /\ last.ret.body.status = "error"
              /\ last.ret.body.message[1] = "No matching challenge log found for playerId "
         [] last.op = "GET /get_status" ->
              /\ last.ret.code = 404
              /\ last.ret.body.status = "NotFound"
         [] last.op = "GET /get_challenges" ->
              /\ last.ret.code = 200
              /\ last.ret.body.status = "success"
              /\ last.ret.body.challenges = << >>

\* C11 witness: a submission for a pair that has a row was answered while a
\* cell update raised.
C11_Witness ==
    /\ last.op = "POST /submit_challenge"
    /\ Accepted(last)
    /\ StoreFailed(last)
    /\ last.env.failAt = 4
    /\ RowsOf(playerlog, P1, C01) # {}
    /\ last.ret.code = 404

\* C12 as claimed: every response of the four endpoints with status code
\* 400, 404 or 500 has a body whose status is "error" or "NotFound" and that
\* has a message field.
C12_ErrorBodyHasMessage ==
    (last.op \in Endpoints /\ last.ret.code \in {400, 404, 500})
    => (/\ last.ret.body.status \in {"error", "NotFound"}
        /\ "message" \in DOMAIN last.ret.body)

\* C12 amended: every such response has a body with status "error" and a
\* non-empty message, except the 404 of /get_status, whose body is exactly
\* {"status": "NotFound", "challengeStatus": null} and has no message.
C12_ErrorBodies ==
    (last.op \in Endpoints /\ last.ret.code \in {400, 404, 500})
    => IF last.op = "GET /get_status" /\ last.ret.code = 404
       THEN /\ DOMAIN last.ret.body = {"status", "challengeStatus"}
            /\ last.ret.body.status = "NotFound"
            /\ last.ret.body.challengeStatus = None
       ELSE /\ last.ret.body.status = "error"
            /\ "message" \in DOMAIN last.ret.body
            /\ Len(last.ret.body.message) > 0

\* C12 witness: /get_status has answered 404 for a well-formed query while
\* the store was answering.
C12_Witness ==
    /\ last.op = "GET /get_status"
    /\ Accepted(last)
    /\ last.env = NoFault
    /\ last.ret.code = 404

\* The number of calls of a store operation in a list of store calls
CountCalls(calls, name) == Cardinality({n \in 1..Len(calls) : calls[n] = name})

\* What sheets_client.log_challenge does for the handler, called with the
\* validated fields of data in the state the handler starts from
LogChallengeOutcome(ws, sh, f, data) ==
    LET d == validate_challenge_data(data).data[1]
    IN  ClientCall(ws, sh, f,
                   log_challenge(ws, sh, f, T1, d["playerId"], d["playerName"],
                                 d["challengeId"], Received, EmptyStr),
                   FALSE)

\* C13: POST /log_challenge with a valid payload answers 200 "success"
\* exactly when log_challenge returned True; when it returned False the answer
\* is 500 "Failed to log data to Google Sheets"; when it raised, the answer is
\* 500 "Internal server error..."; and in the success case one append was made,
\* of a row with the validated playerId, playerName and challengeId.
C13_LogResponseFollowsClient ==
    [][(/\ last.op = "none"
        /\ last'.op = "POST /log_challenge"
        /\ Accepted(last'))
       => LET c == LogChallengeOutcome(playerlog, sheet, last'.env, last'.args[1].data)
              d == validate_challenge_data(last'.args[1].data).data[1]
              r == last'.ret
          IN  /\ (r.code = 200 /\ r.body.status = "success") <=> (~c.raised /\ c.ret)
              /\ (~c.raised /\ ~c.ret)
                    => (/\ r.code = 500
                        /\ r.body.message = <<"Failed to log data to Google Sheets">>)
              /\ c.raised
                    => (/\ r.code = 500
                        /\ r.body.message[1] = "Internal server error: ")
              /\ r.code = 200
                    => (/\ CountCalls(last'.calls, "append_row") = 1
                        /\ Len(playerlog') = Len(playerlog) + 1
                        /\ SubSeq(playerlog', 1, Len(playerlog)) = playerlog
                        /\ playerlog'[Len(playerlog')][2] = d["playerId"]
                        /\ playerlog'[Len(playerlog')][3] = d["playerName"]
                        /\ playerlog'[Len(playerlog')][4] = d["challengeId"])]_vars

\* C13 witness: a payload whose playerName is rewritten by the validator has
\* been logged with 200, and the row holds the rewritten name.
C13_Witness ==
    /\ last.op = "POST /log_challenge"
    /\ last.args[1] = JsonBody(ValidLogAmp)
    /\ last.ret.code = 200
    /\ Len(playerlog) > 1
    /\ playerlog[Len(playerlog)][3] = AmpNameEscaped

\* C14: GET /get_challenges answers 200 with the records of the whole
\* Challenges table in table order and a message that states their number;
\* when the table has no data rows or the store fails, the array is empty and
\* the answer is the same 200.
C14_CatalogOrEmpty ==
    (last.op = "GET /get_challenges" /\ ~last.env.mockRaises)
    => LET arr == last.ret.body.challenges
       IN  /\ last.ret.code = 200
           /\ last.ret.body.status = "success"
           /\ last.ret.body.message = <<"Retrieved ", Len(arr), " challenges successfully">>
           /\ IF StoreFailed(last) \/ Len(challenges) < 2
              THEN arr = << >>
              ELSE /\ Len(arr) = Len(challenges) - 1
                   /\ \A i \in 1..Len(arr) :
                        /\ arr[i].keys = challenges[1]
                        /\ arr[i].vals = challenges[i + 1]

\* C14 witness: the catalog of two challenges, C02 above C01, has been
\* returned.
C14_Witness ==
    /\ last.op = "GET /get_challenges"
    /\ last.env = NoFault
    /\ challenges = <<ChallengesHeader, ChallengeRow2, ChallengeRow1>>
    /\ last.ret.code = 200
    /\ Len(last.ret.body.challenges) = 2
    /\ last.ret.body.challenges[1].vals = ChallengeRow2

ClientOps ==
    {"connect", "log_challenge", "update_submission", "get_player_status",
     "get_challenges"}

\* The store failed the client call held in l: connect fails when the
\* credentials are missing or the store is unreachable, the other calls also
\* when a worksheet request they make raises
ClientCallFailed(l) ==
    IF l.op = "connect" THEN ~l.env.up ELSE StoreFailed(l)

\* The value by which the call held in l reports failure
FailureValue(l) ==
    CASE l.op \in {"connect", "log_challenge", "update_submission"} -> l.ret = FALSE
      [] l.op = "get_player_status" -> l.ret = NoDict
      [] l.op = "get_challenges" -> l.ret = << >>

\* C15: no call of the client ends with an exception, whatever the store
\* does; when the store fails, connect returns (None, None), log_challenge
\* and update_submission return False, get_player_status returns None and
\* get_challenges returns [].
C15_NoExceptionLeavesClient ==
    last.op \in ClientOps
    => (/\ ~last.raised
        /\ ClientCallFailed(last) => FailureValue(last))

\* C15 witness: update_submission has returned False after its second cell
\* update raised.
C15_Witness ==
    /\ last.op = "update_submission"
    /\ last.env.failAt = 4
    /\ CountCalls(last.calls, "update_cell") = 2
    /\ ~last.raised
    /\ last.ret = FALSE

\* ---------------------------------------------------------------------------
\* Admin dashboard: goreal/dashboard/data_handlers.py, components.py, app.py

\* the column labels written when an empty frame is saved, and given to the
\* empty frame that a fetch of a table without records returns
DefaultPlayerLogColumns ==
    <<KTimestamp, KPlayerID, KPlayerName, KChallengeID, KStatus, KSubmissionText>>
DefaultChallengeColumns == <<KChallengeID, KTitle, KDescription, KRewardPoints>>

DataFrame(columns, rows) == [none |-> FALSE, columns |-> columns, rows |-> rows]

\* pd.DataFrame(records): the keys of the records are the column labels
DataFrameOfRecords(records) ==
    DataFrame(records[1].keys, [i \in 1..Len(records) |-> records[i].vals])

\* df.empty
df_empty(df) == Len(df.rows) = 0

\* key in df.columns
HasColumn(df, key) == \E j \in 1..Len(df.columns) : df.columns[j] = key

ColumnIndex(df, key) == CHOOSE j \in 1..Len(df.columns) : df.columns[j] = key

\* df[key].unique(), empty when the frame has no such column
Unique(df, key) ==
    IF ~HasColumn(df, key) THEN {}
    ELSE {df.rows[i][ColumnIndex(df, key)] : i \in 1..Len(df.rows)}

\* df[df[key].isin(values)]
isin(df, key, values) ==
    DataFrame(df.columns,
              SelectSeq(df.rows, LAMBDA r : r[ColumnIndex(df, key)] \in values))

\* create_filter_controls(df, prefix): the selections the three multiselect
\* controls offer, each a subset of the values present in its column
create_filter_controls(df) ==
    [players : SUBSET Unique(df, KPlayerName),
     challenges : SUBSET Unique(df, KChallengeID),
     statuses : SUBSET Unique(df, KStatus)]

\* apply_filters(df, filters): an empty selection does not filter
apply_filters(df, filters) ==
    LET a == IF filters.players # {} THEN isin(df, KPlayerName, filters.players)
             ELSE df
        b == IF filters.challenges # {} THEN isin(a, KChallengeID, filters.challenges)
             ELSE a
    IN  IF filters.statuses # {} THEN isin(b, KStatus, filters.statuses) ELSE b

\* st.data_editor(filtered_df, column_config=...) of the Player Activity tab:
\* rows can be neither added nor deleted; the admin may set the Status of a row
NoEdit == [row |-> 0, status |-> EmptyStr]

data_editor(df, edit) ==
    IF edit.row \in 1..Len(df.rows) /\ HasColumn(df, KStatus)
    THEN DataFrame(df.columns,
                   [df.rows EXCEPT ![edit.row][ColumnIndex(df, KStatus)] = edit.status])
    ELSE df

\* a variant of clear that leaves the worksheet as it is
clear_nothing(ws) == ws

\* Worksheet.clear(): every cell of the worksheet loses its value
clear(ws) == << >>

\* Worksheet.update(data): the values are written from cell A1 on; cells that
\* the block does not cover keep their value
worksheet_update(ws, data) ==
    LET n == IF Len(ws) > Len(data) THEN Len(ws) ELSE Len(data)
    IN  [i \in 1..n |->
            IF i > Len(data) THEN ws[i]
            ELSE IF i > Len(ws) THEN data[i]
            ELSE [j \in 1..(IF Len(ws[i]) > Len(data[i]) THEN Len(ws[i])
                            ELSE Len(data[i])) |->
                     IF j <= Len(data[i]) THEN data[i][j] ELSE ws[i][j]]]

\* [headers] + edited_df.values.tolist()
FrameData(df) == <<df.columns>> \o df.rows

\* fetch_playerlog_data() and fetch_challenges_data(): None when the store
\* cannot be reached or the read raises
fetch_data(ws, f, default_columns) ==
    LET c == connect(f)
        w == get_worksheet(TRUE, f)
        records == get_all_records(ws)
    IN  IF ~c.ret THEN [ret |-> NoneDf, calls |-> <<"connect">>]
        ELSE IF ~w.ok THEN [ret |-> NoneDf, calls |-> <<"connect">> \o w.calls]
        ELSE IF f.failAt = 2
        THEN [ret |-> NoneDf, calls |-> <<"connect">> \o w.calls \o <<"get_all_records">>]
        ELSE [ret |-> IF Len(records) > 0 THEN DataFrameOfRecords(records)
                      ELSE DataFrame(default_columns, << >>),
              calls |-> <<"connect">> \o w.calls \o <<"get_all_records">>]

fetch_playerlog_data(ws, f) == fetch_data(ws, f, DefaultPlayerLogColumns)

fetch_challenges_data(chs, f) == fetch_data(chs, f, DefaultChallengeColumns)

\* save_playerlog_changes(edited_df) yields (success, message) and the
\* worksheet it leaves behind
save_playerlog_changes(ws, f, edited_df) ==
    LET c == connect(f)
        w == get_worksheet(TRUE, f)
        cleared == clear(ws)
        upto == <<"connect">> \o w.calls
        failed == [ok |-> FALSE, msg |-> <<"Error saving Player Log: ", "<str(e)>">>]
    IN  IF ~c.ret
        THEN [ws |-> ws, calls |-> <<"connect">>,
              ret |-> [ok |-> FALSE, msg |-> <<"Failed to connect to Google Sheets">>]]
        ELSE IF ~w.ok
        THEN [ws |-> ws, calls |-> upto,
              ret |-> [ok |-> FALSE, msg |-> <<"Failed to access PlayerLog sheet">>]]
        ELSE IF f.failAt = 2
        THEN [ws |-> ws, calls |-> upto \o <<"clear">>, ret |-> failed]
        ELSE IF f.failAt = 3
        THEN [ws |-> cleared, calls |-> upto \o <<"clear", "update">>, ret |-> failed]
        ELSE IF ~df_empty(edited_df)
        THEN [ws |-> worksheet_update(cleared, FrameData(edited_df)),
              calls |-> upto \o <<"clear", "update">>,
              ret |-> [ok |-> TRUE,
                       msg |-> <<"Player Log updated successfully! ",
                                 Len(edited_df.rows), " records saved.">>]]
        ELSE [ws |-> worksheet_update(cleared, <<DefaultPlayerLogColumns>>),
              calls |-> upto \o <<"clear", "update">>,
              ret |-> [ok |-> TRUE,
                       msg |-> <<"Player Log cleared and headers restored.">>]]

\* save_challenges_changes(edited_df)
save_challenges_changes(chs, f, edited_df) ==
    LET c == connect(f)
        w == get_worksheet(TRUE, f)
        cleared == clear(chs)
        upto == <<"connect">> \o w.calls
        failed == [ok |-> FALSE, msg |-> <<"Error saving Challenge list: ", "<str(e)>">>]
        data == IF ~df_empty(edited_df) THEN FrameData(edited_df)
                ELSE <<DefaultChallengeColumns>>
    IN  IF ~c.ret
        THEN [ws |-> chs, calls |-> <<"connect">>,
              ret |-> [ok |-> FALSE, msg |-> <<"Failed to connect to Google Sheets">>]]
        ELSE IF ~w.ok
        THEN [ws |-> chs, calls |-> upto,
              ret |-> [ok |-> FALSE, msg |-> <<"Failed to access Challenges sheet">>]]
        ELSE IF f.failAt = 2
        THEN [ws |-> chs, calls |-> upto \o <<"clear">>, ret |-> failed]
        ELSE IF f.failAt = 3
        THEN [ws |-> cleared, calls |-> upto \o <<"clear", "update">>, ret |-> failed]
        ELSE [ws |-> worksheet_update(cleared, data),
              calls |-> upto \o <<"clear", "update">>,
              ret |-> [ok |-> TRUE, msg |-> <<"Challenge list saved successfully">>]]

\* ---------------------------------------------------------------------------
\* The dashboard next to the API: players log challenges and submit proofs
\* through the client while an admin loads, filters, edits and saves tables

MaxDashRows == 2

DashPairs == {<<P1, C01>>, <<P1, C02>>}

\* the store is unreachable, or the worksheet lookup, the first request on
\* the worksheet (read or clear) or the rewrite raises
DashFaults == {NoFault, StoreDown} \cup {FailAt(n) : n \in 1..3}

\* the admin saves the rows of the editor as they were loaded
DashEdits == {NoEdit}

\* the catalog as the admin leaves it in the editor, whose rows can be added
\* and deleted freely
ChallengeFrames ==
    {DataFrame(DefaultChallengeColumns, rows) :
        rows \in {<< >>, <<ChallengeRow2, ChallengeRow1>>}}

DashLogChallenge ==
    \E pair \in DashPairs :
        \E res \in {log_challenge(playerlog, sheet, NoFault, T1, pair[1], Alice,
                                  pair[2], Received, EmptyStr)} :
            /\ last.op = "none"
            /\ Len(playerlog) - 1 < MaxDashRows
            /\ playerlog' = res.ws
            /\ sheet' = res.sheet
            /\ last' = [op |-> "log_challenge", args |-> <<pair[1], Alice, pair[2]>>,
                        env |-> NoFault, ret |-> res.ret, calls |-> res.calls]
            /\ UNCHANGED <<inflight, db, payload, verdict, challenges, snapshot>>

DashUpdateSubmission ==
    \E pair \in DashPairs :
        \E res \in {update_submission(playerlog, sheet, NoFault, pair[1], pair[2],
                                      done, Submitted)} :
            /\ last.op = "none"
            /\ playerlog' = res.ws
            /\ sheet' = res.sheet
            /\ last' = [op |-> "update_submission",
                        args |-> <<pair[1], pair[2], done, Submitted>>,
                        env |-> NoFault, ret |-> res.ret, calls |-> res.calls]
            /\ UNCHANGED <<inflight, db, payload, verdict, challenges, snapshot>>

DashGetPlayerStatus ==
    \E pair \in DashPairs :
        \E res \in {get_player_status(playerlog, sheet, NoFault, pair[1], pair[2])} :
            /\ last.op = "none"
            /\ playerlog' = res.ws
            /\ sheet' = res.sheet
            /\ last' = [op |-> "get_player_status", args |-> <<pair[1], pair[2]>>,
                        env |-> NoFault, ret |-> res.ret, calls |-> res.calls]
            /\ UNCHANGED <<inflight, db, payload, verdict, challenges, snapshot>>

\* player_activity_tab() renders and finds no cache entry: the fetch runs
\* and st.cache_data keeps what it returns, None included
FetchPlayerLog ==
    \E f \in DashFaults :
        \E res \in {fetch_playerlog_data(playerlog, f)} :
            /\ last.op = "none"
            /\ ~snapshot.cached
            /\ snapshot' = [cached |-> TRUE, df |-> res.ret]
            /\ UNCHANGED <<inflight, db, playerlog, sheet, last, payload, verdict, challenges>>

\* the 60 seconds of the cache entry pass, or the admin presses Reset
CacheExpires ==
    /\ last.op = "none"
    /\ snapshot.cached
    /\ snapshot' = NoFrame
    /\ UNCHANGED <<inflight, db, playerlog, sheet, last, payload, verdict, challenges>>

\* "Save Log Changes" of player_activity_tab(): the editor holds the cached
\* frame as filtered and edited; a successful save clears the cache
SavePlayerLogChanges ==
    /\ last.op = "none"
    /\ snapshot.cached
    /\ ~snapshot.df.none
    /\ ~df_empty(snapshot.df)
    /\ \E filters \in create_filter_controls(snapshot.df), edit \in DashEdits,
          f \in DashFaults :
        \E edited_df \in {data_editor(apply_filters(snapshot.df, filters), edit)} :
            \E res \in {save_playerlog_changes(playerlog, f, edited_df)} :
                /\ playerlog' = res.ws
                /\ snapshot' = IF res.ret.ok THEN NoFrame ELSE snapshot
                /\ last' = [op |-> "save_playerlog_changes", args |-> <<edited_df>>,
                            env |-> f, before |-> playerlog, ret |-> res.ret,
                            calls |-> res.calls]
                /\ UNCHANGED <<inflight, db, sheet, payload, verdict, challenges>>

\* "Save Challenge List" of challenge_management_tab()
SaveChallengesChanges ==
    \E edited_df \in ChallengeFrames, f \in DashFaults :
        \E res \in {save_challenges_changes(challenges, f, edited_df)} :
            /\ last.op = "none"
            /\ challenges' = res.ws
            /\ snapshot' = IF res.ret.ok THEN NoFrame ELSE snapshot
            /\ last' = [op |-> "save_challenges_changes", args |-> <<edited_df>>,
                        env |-> f, before |-> challenges, ret |-> res.ret,
                        calls |-> res.calls]
            /\ UNCHANGED <<inflight, db, playerlog, sheet, payload, verdict>>

NextDash ==
    \/ DashLogChallenge
    \/ DashUpdateSubmission
    \/ DashGetPlayerStatus
    \/ FetchPlayerLog
    \/ CacheExpires
    \/ SavePlayerLogChanges
    \/ SaveChallengesChanges
    \/ SendResponse

SpecDash == Init /\ [][NextDash]_vars

\* ---------------------------------------------------------------------------
\* Properties of the dashboard saves (SpecDash)

SaveOps == {"save_playerlog_changes", "save_challenges_changes"}

\* the worksheet a save operation writes
SavedTable ==
    IF last.op = "save_playerlog_changes" THEN playerlog ELSE challenges

DefaultColumnsOf ==
    IF last.op = "save_playerlog_changes" THEN DefaultPlayerLogColumns
    ELSE DefaultChallengeColumns

\* C16: after save_playerlog_changes or save_challenges_changes has returned
\* success, the worksheet holds exactly the column labels of the saved frame
\* followed by its rows in order when the frame has rows, and exactly the
\* default header row of the table when the frame has none; nothing of the
\* worksheet's earlier contents is left
C16_SaveReplacesTable ==
    (last.op \in SaveOps /\ last.ret.ok) =>
        LET edited_df == last.args[1]
        IN  IF df_empty(edited_df)
            THEN SavedTable = <<DefaultColumnsOf>>
            ELSE SavedTable = <<edited_df.columns>> \o edited_df.rows

\* a save of a frame with fewer rows than the worksheet held has succeeded:
\* a filtered Player Log of one row, while another row was appended since
C16_Witness ==
    /\ last.op = "save_playerlog_changes"
    /\ last.ret.ok
    /\ Len(last.args[1].rows) = 1
    /\ Len(last.before) = 3
    /\ Len(playerlog) = 2

\* an empty catalog saved over a catalog of two challenges
C16_WitnessEmpty ==
    /\ last.op = "save_challenges_changes"
    /\ last.ret.ok
    /\ df_empty(last.args[1])
    /\ Len(last.before) = 3
    /\ challenges = <<DefaultChallengeColumns>>

\* PlayerLog keeps every row it had: the table has not become shorter and each
\* row below the header still names the same timestamp, player and challenge
RowsKept(old, new) ==
    /\ Len(new) >= Len(old)
    /\ \A i \in 2..Len(old) : SubSeq(new[i], 1, 4) = SubSeq(old[i], 1, 4)

HistoryOps ==
    {"log_challenge", "update_submission", "get_player_status",
     "save_playerlog_changes"}

\* C17: PlayerLog history is append-only: no log, submit-proof, status-query
\* or dashboard save operation, even one during which the store answers every
\* request, removes a row that was appended to PlayerLog or lowers the
\* table's row count
C17_HistoryAppendOnly ==
    [][(last'.op \in HistoryOps /\ last'.env = NoFault)
            => RowsKept(playerlog, playerlog')]_vars

(***************************************************************************)
(* Further properties of the validators, checked under SpecV.              *)
(***************************************************************************)
\* C18 as claimed: validate_status_query(playerId, challengeId) succeeds if
\* and only if both arguments are non-empty and match the identifier pattern
\* (1 to 100 characters, each of [A-Za-z0-9_-]); an absent or empty playerId
\* is reported as "Missing required parameter: playerId" whatever challengeId
\* is, and an absent or empty challengeId next to a playerId as "Missing
\* required parameter: challengeId"
C18_StatusQueryAcceptsWellFormedPairs ==
    verdict.fn = "validate_status_query" =>
        LET player_id == payload.arg[1]
            challenge_id == payload.arg[2]
        IN  /\ verdict.ok <=> (WellFormedId(player_id) /\ WellFormedId(challenge_id))
            /\ Falsy(player_id) =>
                   verdict.msg = <<"Missing required parameter: playerId">>
            /\ (~Falsy(player_id) /\ Falsy(challenge_id)) =>
                   verdict.msg = <<"Missing required parameter: challengeId">>

(***************************************************************************)
(* Required fields of the two POST payloads, checked under SpecApi.        *)
(***************************************************************************)
PostOps == {"POST /log_challenge", "POST /submit_challenge"}

RequiredFieldsOf(l) ==
    IF l.op = "POST /log_challenge" THEN <<"playerId", "playerName", "challengeId">>
    ELSE <<"playerId", "challengeId", "submissionText">>

\* a POST request whose body is a JSON object, and that object
HasObject(l) == l.op \in PostOps /\ l.args[1] # NoData

ObjectOf(l) == l.args[1][1]

Absent(d, field) == field \notin DOMAIN d
PresentEmpty(d, field) == field \in DOMAIN d /\ Falsy(d[field])

\* positions of the required fields that are absent from d or empty in it
AbsentOrEmpty(d, req) ==
    {i \in 1..Len(req) : Absent(d, req[i]) \/ PresentEmpty(d, req[i])}

\* the message the claim expects for a required field of d
ExpectedMessage(d, field) ==
    IF Absent(d, field) THEN <<"Missing required field: ", field>>
    ELSE <<"Empty value for field: ", field>>

\* the required fields before position i all have a value that passes its
\* format check
EarlierFieldsPass(l, d, req, i) ==
    \A j \in 1..(i - 1) :
        IF l.op = "POST /log_challenge"
        THEN CheckField(d, req[j], "playerName", 100).ok
        ELSE CheckField(d, req[j], "submissionText", 5000).ok

\* C19 as claimed: a JSON object with a required key that is absent or present
\* with an empty value is answered 400, and the message names one such key,
\* "Missing required field: <name>" for an absent one and "Empty value for
\* field: <name>" for an empty one
C19_AbsentOrEmptyKeyReported ==
    (HasObject(last) /\ AbsentOrEmpty(ObjectOf(last), RequiredFieldsOf(last)) # {}) =>
        /\ last.ret.code = 400
        /\ \E i \in AbsentOrEmpty(ObjectOf(last), RequiredFieldsOf(last)) :
               last.ret.body.message =
                   ExpectedMessage(ObjectOf(last), RequiredFieldsOf(last)[i])

\* C19 amended: such a payload is always answered 400 without a store call;
\* the message is "No JSON data provided" for the empty object, and otherwise
\* it names the first absent or empty required field, as "Missing required
\* field" or "Empty value for field" according to which it is, provided the
\* required fields before it pass their format checks
C19_FirstAbsentOrEmptyKeyReported ==
    (HasObject(last) /\ AbsentOrEmpty(ObjectOf(last), RequiredFieldsOf(last)) # {}) =>
        LET d == ObjectOf(last)
            req == RequiredFieldsOf(last)
            first == MinOf(AbsentOrEmpty(d, req))
        IN  /\ last.ret.code = 400
            /\ last.ret.body.status = "error"
            /\ last.calls = << >>
            /\ (DOMAIN d = {}) =>
                   last.ret.body.message = <<"No JSON data provided">>
            /\ (DOMAIN d # {} /\ EarlierFieldsPass(last, d, req, first)) =>
                   last.ret.body.message = ExpectedMessage(d, req[first])

\* a log request whose playerName is None has been answered, after one whose
\* key is absent could have been: the empty value is reported as such
C19_Witness ==
    /\ last.op = "POST /log_challenge"
    /\ HasObject(last)
    /\ DOMAIN ObjectOf(last) = ChallengeKeys
    /\ ObjectOf(last)["playerName"] = None
    /\ last.ret.code = 400
    /\ last.ret.body.message = <<"Empty value for field: ", "playerName">>

(***************************************************************************)
(* Request bodies of POST /log_challenge, checked under SpecFault.         *)
(***************************************************************************)
\* the request carries no JSON document: it has no body, its body does not
\* parse, or its content type is not application/json
NoUsableJson(l) == l.op = "POST /log_challenge" /\ l.args[1].kind # "json"

\* C20 as claimed: POST /log_challenge answers 400, never 500, and makes no
\* store call when the request has no body, a body that is not well-formed
\* JSON, or a body with a non-JSON content type
C20_UnusableBodyIs400 ==
    NoUsableJson(last) =>
        /\ last.ret.code = 400
        /\ last.calls = << >>

(***************************************************************************)
(* The relational schema: goreal/core/database.py.  A table is the         *)
(* sequence of its rows in insertion order; the integer primary key of a   *)
(* row is its position.                                                    *)
(***************************************************************************)
MaxDbRows == 2

\* some row of the table holds value in column key
HasRow(rows, key, value) == \E i \in 1..Len(rows) : rows[i][key] = value

\* session.add(Player(player_id=..., player_name=...)); session.commit():
\* players.player_id is unique, so a second row of the same player_id raises
\* IntegrityError and the table stays as it was
commit_player(d, player_id, player_name) ==
    IF HasRow(d.players, "player_id", player_id)
    THEN [db |-> d, raised |-> TRUE]
    ELSE [db |-> [d EXCEPT !.players =
                      Append(@, [player_id |-> player_id, player_name |-> player_name])],
          raised |-> FALSE]

\* session.add(Challenge(challenge_id=..., ...)); session.commit():
\* challenges.challenge_id is unique
commit_challenge(d, challenge_id, title) ==
    IF HasRow(d.challenges, "challenge_id", challenge_id)
    THEN [db |-> d, raised |-> TRUE]
    ELSE [db |-> [d EXCEPT !.challenges =
                      Append(@, [challenge_id |-> challenge_id, title |-> title])],
          raised |-> FALSE]

\* session.add(PlayerChallenge(player_id=..., challenge_id=...));
\* session.commit(): the columns are foreign keys into players and challenges
\* and not nullable; the only unique column is the primary key id.  fk tells
\* whether the database enforces foreign keys (PostgreSQL does, SQLite does
\* not unless the pragma is set)
commit_player_challenge(d, fk, player_id, challenge_id) ==
    IF \/ fk /\ ~HasRow(d.players, "player_id", player_id)
       \/ fk /\ ~HasRow(d.challenges, "challenge_id", challenge_id)
    THEN [db |-> d, raised |-> TRUE]
    ELSE [db |-> [d EXCEPT !.player_challenges =
                      Append(@, [player_id |-> player_id,
                                 challenge_id |-> challenge_id,
                                 status |-> "received"])],
          raised |-> FALSE]

DbPlayers == {P1, P2}
DbChallenges == {C01, C02}

CommitPlayer ==
    \E player_id \in DbPlayers :
        \E res \in {commit_player(db, player_id, Alice)} :
            /\ Len(db.players) < MaxDbRows
            /\ db' = res.db
            /\ last' = [op |-> "commit Player", args |-> <<player_id, Alice>>,
                        ret |-> ~res.raised, calls |-> << >>]
            /\ UNCHANGED <<playerlog, sheet, payload, verdict, challenges, snapshot,
                           inflight>>

CommitChallenge ==
    \E challenge_id \in DbChallenges :
        \E res \in {commit_challenge(db, challenge_id, Title1)} :
            /\ Len(db.challenges) < MaxDbRows
            /\ db' = res.db
            /\ last' = [op |-> "commit Challenge", args |-> <<challenge_id, Title1>>,
                        ret |-> ~res.raised, calls |-> << >>]
            /\ UNCHANGED <<playerlog, sheet, payload, verdict, challenges, snapshot,
                           inflight>>

CommitPlayerChallenge ==
    \E player_id \in DbPlayers, challenge_id \in DbChallenges, fk \in BOOLEAN :
        \E res \in {commit_player_challenge(db, fk, player_id, challenge_id)} :
            /\ Len(db.player_challenges) < MaxDbRows
            /\ db' = res.db
            /\ last' = [op |-> "commit PlayerChallenge",
                        args |-> <<player_id, challenge_id>>,
                        ret |-> ~res.raised, calls |-> << >>]
            /\ UNCHANGED <<playerlog, sheet, payload, verdict, challenges, snapshot,
                           inflight>>

NextDb ==
    \/ CommitPlayer
    \/ CommitChallenge
    \/ CommitPlayerChallenge

SpecDb == Init /\ [][NextDb]_vars

\* the rows of player_challenges that hold the pair
PlayerChallengesOf(d, player_id, challenge_id) ==
    {i \in 1..Len(d.player_challenges) :
        /\ d.player_challenges[i].player_id = player_id
        /\ d.player_challenges[i].challenge_id = challenge_id}

\* C21 as claimed: a player has at most one PlayerChallenge row per challenge,
\* and the commit of a PlayerChallenge whose pair already has a row has failed
\* with an integrity error, leaving that row the only one of the pair
C21_OnePlayerChallengePerPair ==
    /\ \A player_id \in DbPlayers, challenge_id \in DbChallenges :
           Cardinality(PlayerChallengesOf(db, player_id, challenge_id)) <= 1
    /\ (/\ last.op = "commit PlayerChallenge"
        /\ Cardinality(PlayerChallengesOf(db, last.args[1], last.args[2])) >= 2)
           => ~last.ret

(***************************************************************************)
(* SpecClient: the life of one GoogleSheetsClient instance.  Its methods   *)
(* are called one after the other; at each call the store is reachable or  *)
(* not, whatever it was at the call before.  sheet is the instance's       *)
(* cached handle (self._sheet), None from construction until a connect     *)
(* succeeds.                                                               *)
(***************************************************************************)
MaxLifeRows == 2

\* the call that is starting repeats the call before it: the same method with
\* the same arguments, and no other operation in between
SameCallAgain(op, args) == last.op = op /\ last.args = args

\* the instance has been used and holds no handle: as every method connects
\* when there is no handle, every connect attempt made so far has failed
CachedNull == last.op # "none" /\ ~sheet

LifeConnect ==
    \E f \in ConnectFaults :
        \E res \in {connect(f)} :
            /\ sheet' = res.ret
            /\ last' = [op |-> "connect", args |-> << >>, env |-> f,
                        after_failure |-> CachedNull,
                        ret |-> res.ret, raised |-> res.raised, calls |-> <<"connect">>]
            /\ UNCHANGED <<inflight, db, playerlog, payload, verdict, challenges,
                           snapshot>>

LifeLogChallenge ==
    \E f \in ConnectFaults, pair \in DashPairs :
        \E res \in {log_challenge(playerlog, sheet, f, T1, pair[1], Alice, pair[2],
                                  Received, EmptyStr)} :
            /\ Len(playerlog) - 1 < MaxLifeRows
            /\ playerlog' = res.ws
            /\ sheet' = res.sheet
            /\ last' = [op |-> "log_challenge", args |-> <<pair[1], Alice, pair[2]>>,
                        env |-> f, after_failure |-> CachedNull,
                        ret |-> res.ret, raised |-> res.raised, calls |-> res.calls]
            /\ UNCHANGED <<inflight, db, payload, verdict, challenges, snapshot>>

LifeUpdateSubmission ==
    \E f \in ConnectFaults, s \in Submissions :
        \E res \in {update_submission(playerlog, sheet, f, P1, C01, s[1], s[2])} :
            /\ playerlog' = res.ws
            /\ sheet' = res.sheet
            /\ last' = [op |-> "update_submission", args |-> <<P1, C01, s[1], s[2]>>,
                        env |-> f, after_failure |-> CachedNull,
                        again |-> SameCallAgain("update_submission",
                                                <<P1, C01, s[1], s[2]>>),
                        ret |-> res.ret, raised |-> res.raised, calls |-> res.calls]
            /\ UNCHANGED <<inflight, db, payload, verdict, challenges, snapshot>>

LifeGetPlayerStatus ==
    \E f \in ConnectFaults :
        \E res \in {get_player_status(playerlog, sheet, f, P1, C01)} :
            /\ playerlog' = res.ws
            /\ sheet' = res.sheet
            /\ last' = [op |-> "get_player_status", args |-> <<P1, C01>>, env |-> f,
                        after_failure |-> CachedNull,
                        ret |-> res.ret, raised |-> res.raised, calls |-> res.calls]
            /\ UNCHANGED <<inflight, db, payload, verdict, challenges, snapshot>>

LifeGetChallenges ==
    \E f \in ConnectFaults :
        \E res \in {get_challenges(challenges, sheet, f)} :
            /\ sheet' = res.sheet
            /\ last' = [op |-> "get_challenges", args |-> << >>, env |-> f,
                        after_failure |-> CachedNull,
                        ret |-> res.ret, raised |-> res.raised, calls |-> res.calls]
            /\ UNCHANGED <<inflight, db, playerlog, payload, verdict, challenges,
                           snapshot>>

NextClient ==
    \/ LifeConnect
    \/ LifeLogChallenge
    \/ LifeUpdateSubmission
    \/ LifeGetPlayerStatus
    \/ LifeGetChallenges

SpecClient == InitFault /\ [][NextClient]_vars

\* the methods that go through get_worksheet
WorksheetOps == {"log_challenge", "update_submission", "get_player_status",
                 "get_challenges"}

\* C22 as claimed: once a connect attempt of the instance has failed, a later
\* call finds the cached-null state and fails without a successful reconnect,
\* also when the store is reachable at that call: the handle stays None, no
\* worksheet is reached, and log_challenge and update_submission give False
C22_FailedConnectIsSticky ==
    [][(CachedNull /\ last'.op \in WorksheetOps /\ last'.env = NoFault)
          => /\ ~sheet'
             /\ "worksheet" \notin {last'.calls[i] : i \in 1..Len(last'.calls)}
             /\ last'.op \in {"log_challenge", "update_submission"} => last'.ret = FALSE]_vars

\* C22: a failed connect caches nothing that later calls would reuse.  After
\* any number of failed connect attempts the next call of a method of the same
\* instance connects again; when the store is reachable at that call, the
\* connect succeeds, the handle is cached, the worksheet is reached and
\* log_challenge returns True
C22_FailedConnectIsRetried ==
    [][(CachedNull /\ last'.op \in WorksheetOps /\ last'.env = NoFault)
          => /\ sheet'
             /\ Len(last'.calls) >= 2
             /\ last'.calls[1] = "connect"
             /\ last'.calls[2] = "worksheet"
             /\ ~last'.raised
             /\ last'.op = "log_challenge" => last'.ret = TRUE]_vars

\* a method called with the store reachable, after a failed connect of the
\* same instance, has connected and appended its row
C22_Witness ==
    /\ last.op = "log_challenge"
    /\ last.after_failure
    /\ last.env = NoFault
    /\ last.ret = TRUE
    /\ sheet
    /\ RowsOf(playerlog, last.args[1], last.args[3]) # {}

(***************************************************************************)
(* Properties of repeated and failed calls.                                *)
(***************************************************************************)
\* C25: update_submission is idempotent.  When update_submission is called a
\* second time with the arguments of the call before it and no other operation
\* in between, and the store answers both calls, the second call leaves
\* PlayerLog as the first call left it and returns the boolean the first call
\* returned.
C25_UpdateSubmissionIdempotent ==
    [][(/\ last.op = "update_submission"
        /\ last'.op = "update_submission"
        /\ last'.args = last.args
        /\ last.env = NoFault
        /\ last'.env = NoFault)
          => /\ playerlog' = playerlog
             /\ last'.ret = last.ret]_vars

\* the second of two identical calls has returned True: the pair has a row,
\* and the row holds the status and the text of the calls
C25_Witness ==
    /\ last.op = "update_submission"
    /\ last.again
    /\ last.env = NoFault
    /\ last.ret = TRUE
    /\ \E i \in RowsOf(playerlog, last.args[1], last.args[2]) :
           playerlog[i][5] = last.args[4] /\ playerlog[i][6] = last.args[3]

\* the second of two identical calls has returned False: the pair has no row
\* while the table has rows of other pairs
C25_WitnessNoRow ==
    /\ last.op = "update_submission"
    /\ last.again
    /\ last.env = NoFault
    /\ last.ret = FALSE
    /\ Len(playerlog) > 1

\* C26 as claimed: whenever update_submission returns False, PlayerLog has
\* exactly the contents it had before the call, also when a store request of
\* the call raised
C26_FalseLeavesTableUnchanged ==
    [][(last'.op = "update_submission" /\ last'.ret = FALSE)
          => playerlog' = playerlog]_vars

(***************************************************************************)
(* Further properties of the dashboard saves, checked under SpecDash.      *)
(***************************************************************************)
\* C28 as claimed: whenever save_playerlog_changes or save_challenges_changes
\* returns failure (False, message), the table it was to write has exactly the
\* contents it had before the call, also when the rewrite raised after the
\* clear had run
C28_FailedSaveLeavesTableUnchanged ==
    (last.op \in SaveOps /\ ~last.ret.ok) => SavedTable = last.before

\* the rows of a table or of a frame, as a set
RowSet(rows) == {rows[i] : i \in 1..Len(rows)}

\* the rows below the header of PlayerLog that the snapshot does not hold as
\* they are: rows appended, and rows whose submission was written, after the
\* dashboard read the snapshot
WrittenSinceFetch(ws, snap) ==
    {ws[i] : i \in 2..Len(ws)} \ RowSet(snap.df.rows)

\* C29 as claimed: no API write is lost to a dashboard save.  A row appended by
\* log_challenge, or a row whose submission update_submission wrote, after the
\* dashboard read its PlayerLog snapshot is still in PlayerLog, as written,
\* after the dashboard has saved that snapshot with save_playerlog_changes
C29_NoApiWriteLostToSave ==
    [][(last'.op = "save_playerlog_changes" /\ last'.ret.ok)
          => WrittenSinceFetch(playerlog, snapshot) \subseteq RowSet(playerlog')]_vars

(***************************************************************************)
(* SpecText: POST /log_challenge and POST /submit_challenge with text      *)
(* fields of letters, of letters and white space, and of white space only, *)
(* against a store that answers every request.                             *)
(***************************************************************************)
MaxTextRows == 2

TextNames == {Alice, AliceSmith, Blank}
TextSubmissions == {done, redo, Blank}

LogTextPayloads ==
    {<<[playerId |-> P1, playerName |-> n, challengeId |-> C01]>> : n \in TextNames}

SubmitTextPayloads ==
    {<<[playerId |-> P1, challengeId |-> C01, submissionText |-> t]>> :
        t \in TextSubmissions}

PostLogChallengeText ==
    \E data \in LogTextPayloads :
        \E res \in {route_log_challenge(playerlog, sheet, NoFault, T1, data)} :
            /\ last.op = "none"
            /\ Len(res.ws) - 1 <= MaxTextRows
            /\ playerlog' = res.ws
            /\ sheet' = res.sheet
            /\ last' = [op |-> "POST /log_challenge", args |-> <<data>>,
                        ret |-> res.ret, calls |-> res.calls]
            /\ UNCHANGED <<inflight, db, payload, verdict, challenges, snapshot>>

PostSubmitChallengeText ==
    \E data \in SubmitTextPayloads :
        \E res \in {route_submit_challenge(playerlog, sheet, NoFault, data)} :
            /\ last.op = "none"
            /\ playerlog' = res.ws
            /\ sheet' = res.sheet
            /\ last' = [op |-> "POST /submit_challenge", args |-> <<data>>,
                        ret |-> res.ret, calls |-> res.calls]
            /\ UNCHANGED <<inflight, db, payload, verdict, challenges, snapshot>>

NextText ==
    \/ PostLogChallengeText
    \/ PostSubmitChallengeText
    \/ SendResponse

SpecText == Init /\ [][NextText]_vars

\* C30 as claimed: every row that /log_challenge has appended has a non-empty
\* PlayerID, PlayerName and ChallengeID, and every submission that
\* /submit_challenge has written has a non-empty SubmissionText: the fields of
\* an accepted payload are still non-empty after the in-place sanitization
C30_AcceptedFieldsStayNonEmpty ==
    \A i \in 2..Len(playerlog) :
        /\ playerlog[i][2] # EmptyStr
        /\ playerlog[i][3] # EmptyStr
        /\ playerlog[i][4] # EmptyStr
        /\ playerlog[i][5] = Submitted => playerlog[i][6] # EmptyStr

(***************************************************************************)
(* SpecRace: the API process and the dashboard working on PlayerLog at the *)
(* same time.  Every request to the store is one step.  Two calls of       *)
(* update_submission, A and B, each read the table, write the Status cell  *)
(* and write the SubmissionText cell; the dashboard reads its snapshot and *)
(* saves it with a clear and a rewrite; get_player_status and              *)
(* log_challenge make one request each.  inflight holds, for A, B and the  *)
(* save S, how far the call has come and its local variables; last is the  *)
(* latest request made.  The store answers every request.                  *)
(***************************************************************************)
MaxRaceRows == 2

Updaters == {"A", "B"}

\* (player_id, challenge_id, submission_text, status) of the two calls
CallArgs ==
    [A |-> <<P1, C01, done, Submitted>>, B |-> <<P1, C01, redo, Completed>>]

NotStarted == [pc |-> "idle", row |-> 0, ret |-> FALSE]
SaveNotStarted == [pc |-> "idle", frame |-> NoneDf, before |-> << >>]

RaceRow(challenge_id) == <<T1, P1, Alice, challenge_id, Received, EmptyStr>>

RaceTables ==
    {<<PlayerLogHeader, RaceRow(C01)>>,
     <<PlayerLogHeader, RaceRow(C01), RaceRow(C02)>>}

InitRace ==
    /\ playerlog \in RaceTables
    /\ challenges = <<ChallengesHeader>>
    /\ snapshot = NoFrame
    /\ inflight = [A |-> NotStarted, B |-> NotStarted, S |-> SaveNotStarted]
    /\ db = EmptyDb
    /\ sheet = FALSE
    /\ last = NoCall
    /\ payload = NoPayload
    /\ verdict = NoVerdict

\* update_submission up to the end of its loop: get_worksheet,
\* get_all_records, and the search for the matching row
UpdateSubmissionRead ==
    \E c \in Updaters :
        LET a == CallArgs[c]
            w == get_worksheet(sheet, NoFault)
            records == get_all_records(playerlog)
            hits == Matching(records, a[1], a[2])
        IN  /\ inflight[c].pc = "idle"
            /\ sheet' = w.sheet
            /\ IF records = << >> \/ hits = {}
               THEN inflight' = [inflight EXCEPT
                                    ![c] = [pc |-> "returned", row |-> 0, ret |-> FALSE]]
               ELSE inflight' = [inflight EXCEPT
                                    ![c] = [pc |-> "read",
                                            row |-> matching_row_index(ScanFromBottom(hits)),
                                            ret |-> FALSE]]
            /\ last' = [op |-> "get_all_records", args |-> <<c>>,
                        ret |-> Len(records), calls |-> w.calls]
            /\ UNCHANGED <<db, playerlog, payload, verdict, challenges, snapshot>>

\* worksheet.update_cell(matching_row_index, 5, status)
UpdateSubmissionWriteStatus ==
    \E c \in Updaters :
        /\ inflight[c].pc = "read"
        /\ playerlog' = update_cell(playerlog, inflight[c].row, 5, CallArgs[c][4])
        /\ inflight' = [inflight EXCEPT ![c].pc = "status_written"]
        /\ last' = [op |-> "update_cell", args |-> <<c, inflight[c].row, 5>>,
                    ret |-> TRUE, calls |-> << >>]
        /\ UNCHANGED <<db, sheet, payload, verdict, challenges, snapshot>>

\* worksheet.update_cell(matching_row_index, 6, submission_text); return True
UpdateSubmissionWriteText ==
    \E c \in Updaters :
        /\ inflight[c].pc = "status_written"
        /\ playerlog' = update_cell(playerlog, inflight[c].row, 6, CallArgs[c][3])
        /\ inflight' = [inflight EXCEPT ![c].pc = "returned", ![c].ret = TRUE]
        /\ last' = [op |-> "update_cell", args |-> <<c, inflight[c].row, 6>>,
                    ret |-> TRUE, calls |-> << >>]
        /\ UNCHANGED <<db, sheet, payload, verdict, challenges, snapshot>>

\* the dashboard reads PlayerLog into its cache
RaceFetchPlayerLog ==
    \E res \in {fetch_playerlog_data(playerlog, NoFault)} :
        /\ inflight.S.pc = "idle"
        /\ ~snapshot.cached
        /\ snapshot' = [cached |-> TRUE, df |-> res.ret]
        /\ last' = [op |-> "fetch_playerlog_data", args |-> << >>,
                    ret |-> Len(res.ret.rows), calls |-> res.calls]
        /\ UNCHANGED <<inflight, db, playerlog, sheet, payload, verdict, challenges>>

\* "Save Log Changes" up to and including worksheet.clear(); the frame saved
\* is the snapshot narrowed by the filters
SaveClear ==
    /\ inflight.S.pc = "idle"
    /\ snapshot.cached
    /\ ~snapshot.df.none
    /\ ~df_empty(snapshot.df)
    /\ \E frame \in {apply_filters(snapshot.df, filters) :
                        filters \in create_filter_controls(snapshot.df)} :
          /\ playerlog' = clear(playerlog)
          /\ inflight' = [inflight EXCEPT
                             !.S = [pc |-> "cleared", frame |-> frame,
                                    before |-> playerlog]]
          /\ last' = [op |-> "clear", args |-> <<frame>>, ret |-> TRUE,
                      calls |-> << >>]
          /\ UNCHANGED <<db, sheet, payload, verdict, challenges, snapshot>>

\* worksheet.update(data) or worksheet.update([headers]); return (True, ...)
SaveRewrite ==
    LET frame == inflight.S.frame
        data == IF ~df_empty(frame) THEN FrameData(frame)
                ELSE <<DefaultPlayerLogColumns>>
    IN  /\ inflight.S.pc = "cleared"
        /\ playerlog' = worksheet_update(playerlog, data)
        /\ inflight' = [inflight EXCEPT !.S.pc = "returned"]
        /\ snapshot' = NoFrame
        /\ last' = [op |-> "update", args |-> <<frame>>, ret |-> TRUE,
                    calls |-> << >>]
        /\ UNCHANGED <<db, sheet, payload, verdict, challenges>>

\* get_player_status(player_id, challenge_id); during tells how far the save
\* had come when the table was read
RaceGetPlayerStatus ==
    \E res \in {get_player_status(playerlog, sheet, NoFault, P1, C01)} :
        /\ sheet' = res.sheet
        /\ last' = [op |-> "get_player_status", args |-> <<P1, C01>>,
                    ret |-> res.ret, calls |-> res.calls,
                    during |-> inflight.S.pc]
        /\ UNCHANGED <<inflight, db, playerlog, payload, verdict, challenges,
                       snapshot>>

\* log_challenge(player_id, player_name, challenge_id)
RaceLogChallenge ==
    \E challenge_id \in {C01} :
        \E res \in {log_challenge(playerlog, sheet, NoFault, T2, P1, Alice,
                                  challenge_id, Received, EmptyStr)} :
            /\ Len(playerlog) - 1 < MaxRaceRows
            /\ playerlog' = res.ws
            /\ sheet' = res.sheet
            /\ last' = [op |-> "log_challenge", args |-> <<P1, Alice, challenge_id>>,
                        ret |-> res.ret, calls |-> res.calls]
            /\ UNCHANGED <<inflight, db, payload, verdict, challenges, snapshot>>

NextRace ==
    \/ UpdateSubmissionRead
    \/ UpdateSubmissionWriteStatus
    \/ UpdateSubmissionWriteText
    \/ RaceFetchPlayerLog
    \/ SaveClear
    \/ SaveRewrite
    \/ RaceGetPlayerStatus
    \/ RaceLogChallenge

SpecRace == InitRace /\ [][NextRace]_vars

(***************************************************************************)
(* Properties of concurrent calls, checked under SpecRace.                 *)
(***************************************************************************)
\* row r of the table exists and holds the pair
RowIsOf(ws, r, player_id, challenge_id) ==
    /\ r \in 1..Len(ws)
    /\ Len(ws[r]) >= 4
    /\ ws[r][2] = player_id
    /\ ws[r][4] = challenge_id

\* C23 as claimed: when two update_submission calls for the same pair have run
\* concurrently, have matched the same row and have both returned True, with
\* no save of the table in between, the row holds the status and the
\* submissionText of one single call, never the status of one call next to
\* the submissionText of the other
C23_RowOfOneSingleCall ==
    (/\ inflight.A.pc = "returned" /\ inflight.A.ret
     /\ inflight.B.pc = "returned" /\ inflight.B.ret
     /\ inflight.A.row = inflight.B.row
     /\ inflight.S.pc = "idle")
        => LET row == playerlog[inflight.A.row]
           IN  <<row[5], row[6]>> \in
                   {<<CallArgs[c][4], CallArgs[c][3]>> : c \in Updaters}

\* C24: the bulk save is not atomic for readers.  A get_player_status that
\* reads PlayerLog after the clear of save_playerlog_changes and before its
\* rewrite finds no record and returns None, also for a pair that had rows
\* before the save and has rows in the frame being saved; an update_submission
\* that reads the table then finds no matching row and returns False
C24_ReaderBetweenClearAndRewrite ==
    [][/\ (last'.op = "get_player_status" /\ inflight.S.pc = "cleared")
            => last'.ret = NoDict
       /\ (last'.op = "get_all_records" /\ inflight.S.pc = "cleared")
            => /\ inflight'[last'.args[1]].pc = "returned"
               /\ ~inflight'[last'.args[1]].ret]_vars

\* get_player_status has returned None for a pair during a save, after the
\* clear and before the rewrite, while the table held a row of the pair before
\* the save and the frame being saved holds that row: the table is empty
C24_Witness ==
    /\ last.op = "get_player_status"
    /\ last.during = "cleared"
    /\ last.ret = NoDict
    /\ inflight.S.pc = "cleared"
    /\ playerlog = << >>
    /\ RowsOf(inflight.S.before, last.args[1], last.args[2]) # {}
    /\ \E i \in 1..Len(inflight.S.frame.rows) :
           /\ inflight.S.frame.rows[i][2] = last.args[1]
           /\ inflight.S.frame.rows[i][4] = last.args[2]

\* C27 as claimed: every cell that update_submission writes belongs, at the
\* moment of the write, to a row whose PlayerID and ChallengeID equal the
\* arguments of the call, whatever the dashboard save and log_challenge have
\* done since the call read the table
C27_WritesHitTheMatchedPair ==
    [][last'.op = "update_cell"
          => RowIsOf(playerlog, last'.args[2],
                     CallArgs[last'.args[1]][1], CallArgs[last'.args[1]][2])]_vars

====
